---- MODULE Spec2Model ----
(***************************************************************************)
(* A model of the FastMCP study servers: the shared tools of mcp_shared    *)
(* (get_server_info, calculate, string_operations, generate_data), the     *)
(* tools and resources of the stdio and HTTP server assemblies, and the    *)
(* response envelope each handler returns.                                 *)
(*                                                                         *)
(* Strings are sequences of one-character strings.  Python values are      *)
(* records [k, n, d, items]: k is the runtime type name ("int", "float",   *)
(* "tuple", "ellipsis"), n/d the value of a number as a fraction in lowest *)
(* terms, items the elements of a tuple.  A float is modelled by its exact *)
(* rational value (rounding is not modelled).                              *)
(***************************************************************************)
EXTENDS Integers, Sequences, FiniteSets, TLC

VARIABLES pc, call, response, progress, evalLog, failed, raised, prev,
          registered, client

vars == <<pc, call, response, progress, evalLog, failed, raised, prev,
          registered, client>>

(***************************************************************************)
(* Bounds of the model.                                                    *)
(***************************************************************************)
MaxLen == 3
MaxTextLen == 3
MaxNumbers == 3

(***************************************************************************)
(* Generic helpers.                                                        *)
(***************************************************************************)
RECURSIVE StringsUpTo(_, _)
StringsUpTo(alphabet, n) ==
    IF n = 0 THEN {<<>>}
    ELSE LET shorter == StringsUpTo(alphabet, n - 1)
         IN  shorter \cup {Append(s, c) : s \in shorter, c \in alphabet}

Range(s) == {s[i] : i \in 1..Len(s)}

Char(s, i) == IF i >= 1 /\ i <= Len(s) THEN s[i] ELSE ""

Abs(x) == IF x < 0 THEN -x ELSE x

\* F applied to the value of v, v being evaluated once
Let(v, F(_)) == CHOOSE y \in {F(x) : x \in {v}} : TRUE

RECURSIVE Gcd(_, _)
Gcd(a, b) == IF b = 0 THEN a ELSE Gcd(b, a % b)

RECURSIVE IntPow(_, _)
IntPow(b, x) == IF x = 0 THEN 1 ELSE b * IntPow(b, x - 1)

(***************************************************************************)
(* Python values.                                                          *)
(***************************************************************************)
IntV(n) == [k |-> "int", n |-> n, d |-> 1, items |-> <<>>]

FloatV(n, d) ==
    LET g == Gcd(Abs(n), Abs(d))
        sgn == IF d < 0 THEN -1 ELSE 1
    IN  [k |-> "float", n |-> sgn * (n \div g), d |-> sgn * (d \div g), items |-> <<>>]

TupleV(items) == [k |-> "tuple", n |-> 0, d |-> 1, items |-> items]

EllipsisV == [k |-> "ellipsis", n |-> 0, d |-> 1, items |-> <<>>]

\* a value outside the model's number domain (a literal exponent of two or
\* more digits, an irrational or complex power)
BeyondV == [k |-> "beyond", n |-> 0, d |-> 1, items |-> <<>>]

NoneV == [k |-> "none", n |-> 0, d |-> 1, items |-> <<>>]

IsNum(v) == v.k \in {"int", "float"}

\* type(result).__name__
TypeName(v) == v.k

ErrorV == [k |-> "error", n |-> 0, d |-> 1, items |-> <<>>]

\* int, float, or a number outside the model's domain
IsNumLike(v) == v.k \in {"int", "float", "beyond"}

BothInt(a, b) == a.k = "int" /\ b.k = "int"

NumV(isInt, n, d) == IF isInt THEN IntV(n) ELSE FloatV(n, d)

RECURSIVE Repeat(_, _)
Repeat(items, n) == IF n <= 0 THEN <<>> ELSE items \o Repeat(items, n - 1)

(***************************************************************************)
(* The arithmetic of the host language's expression evaluator on the       *)
(* values above: the operators an allow-listed expression can use.         *)
(***************************************************************************)
PyAdd(a, b) ==
    IF IsNum(a) /\ IsNum(b)
    THEN NumV(BothInt(a, b), a.n * b.d + b.n * a.d, a.d * b.d)
    ELSE IF IsNumLike(a) /\ IsNumLike(b) THEN BeyondV
    ELSE IF a.k = "tuple" /\ b.k = "tuple" THEN TupleV(a.items \o b.items)
    ELSE ErrorV

PySub(a, b) ==
    IF IsNum(a) /\ IsNum(b)
    THEN NumV(BothInt(a, b), a.n * b.d - b.n * a.d, a.d * b.d)
    ELSE IF IsNumLike(a) /\ IsNumLike(b) THEN BeyondV
    ELSE ErrorV

PyMul(a, b) ==
    IF IsNum(a) /\ IsNum(b)
    THEN NumV(BothInt(a, b), a.n * b.n, a.d * b.d)
    ELSE IF IsNumLike(a) /\ IsNumLike(b) THEN BeyondV
    ELSE IF a.k = "tuple" /\ b.k = "int" THEN TupleV(Repeat(a.items, b.n))
    ELSE IF a.k = "int" /\ b.k = "tuple" THEN TupleV(Repeat(b.items, a.n))
    ELSE ErrorV

PyTrueDiv(a, b) ==
    IF IsNum(a) /\ IsNum(b)
    THEN IF b.n = 0 THEN ErrorV ELSE FloatV(a.n * b.d, a.d * b.n)
    ELSE IF IsNumLike(a) /\ IsNumLike(b) THEN BeyondV
    ELSE ErrorV

Floor(n, d) == IF d < 0 THEN (-n) \div (-d) ELSE n \div d

PyFloorDiv(a, b) ==
    IF IsNum(a) /\ IsNum(b)
    THEN IF b.n = 0 THEN ErrorV
         \* the floor of a quotient of fractional floats depends on rounding
         ELSE IF a.d # 1 \/ b.d # 1 THEN BeyondV
         ELSE NumV(BothInt(a, b), Floor(a.n * b.d, a.d * b.n), 1)
    ELSE IF IsNumLike(a) /\ IsNumLike(b) THEN BeyondV
    ELSE ErrorV

PyPow(a, b) ==
    IF IsNum(a) /\ IsNum(b)
    THEN IF b.d = 1
         THEN IF b.n >= 0
              THEN NumV(BothInt(a, b), IntPow(a.n, b.n), IntPow(a.d, b.n))
              ELSE IF a.n = 0 THEN ErrorV
                   ELSE FloatV(IntPow(a.d, -b.n), IntPow(a.n, -b.n))
         ELSE IF a.n = 0 THEN (IF b.n > 0 THEN FloatV(0, 1) ELSE ErrorV)
              ELSE IF a.n = a.d THEN FloatV(1, 1)
              ELSE BeyondV
    ELSE IF IsNumLike(a) /\ IsNumLike(b) THEN BeyondV
    ELSE ErrorV

PyNeg(a) ==
    IF IsNum(a) THEN NumV(a.k = "int", -a.n, a.d)
    ELSE IF a.k = "beyond" THEN BeyondV
    ELSE ErrorV

PyPos(a) == IF IsNumLike(a) THEN a ELSE ErrorV

BinOp(op, a, b) ==
    CASE op = "+"  -> PyAdd(a, b)
      [] op = "-"  -> PySub(a, b)
      [] op = "*"  -> PyMul(a, b)
      [] op = "/"  -> PyTrueDiv(a, b)
      [] op = "//" -> PyFloorDiv(a, b)
      [] op = "**" -> PyPow(a, b)
      [] OTHER     -> ErrorV

(***************************************************************************)
(* The evaluator's tokenizer.  A token is [t, s, v]: t = "num" (a number   *)
(* literal or the ellipsis, with value v) or t = "op" (the operator s).    *)
(* A name (the letter e outside a literal's exponent), an attribute dot    *)
(* and any other character make the evaluation fail whatever follows: the  *)
(* evaluator's namespace binds no name spelt with e and digits only, and   *)
(* no value has such an attribute.                                         *)
(***************************************************************************)
DigitChars == <<"0", "1", "2", "3", "4", "5", "6", "7", "8", "9">>

Digits == Range(DigitChars)

DigitVal(c) == (CHOOSE i \in 1..Len(DigitChars) : DigitChars[i] = c) - 1

IsDigit(s, i) == Char(s, i) \in Digits

RECURSIVE DigitsEnd(_, _)
DigitsEnd(s, i) == IF IsDigit(s, i) THEN DigitsEnd(s, i + 1) ELSE i

\* the value of the digits s[i..j-1]
RECURSIVE DigitsValue(_, _, _)
DigitsValue(s, i, j) ==
    IF j <= i THEN 0 ELSE 10 * DigitsValue(s, i, j - 1) + DigitVal(s[j - 1])

NumTok(v) == [t |-> "num", s |-> "", v |-> v]

OpTok(op) == [t |-> "op", s |-> op, v |-> NoneV]

\* the number literal starting at s[i]: [ok, v, p], p the position after it
ScanNumber(s, i) ==
    LET a == DigitsEnd(s, i)
        hasDot == Char(s, a) = "."
        b == IF hasDot THEN DigitsEnd(s, a + 1) ELSE a
        signed == Char(s, b + 1) \in {"+", "-"}
        c0 == IF signed THEN b + 2 ELSE b + 1
        hasExp == Char(s, b) = "e" /\ IsDigit(s, c0)
        c == IF hasExp THEN DigitsEnd(s, c0) ELSE b
        intVal == DigitsValue(s, i, a)
        fracLen == IF hasDot THEN b - (a + 1) ELSE 0
        fracVal == IF hasDot THEN DigitsValue(s, a + 1, b) ELSE 0
        scale == IntPow(10, fracLen)
        mant == intVal * scale + fracVal
        expVal == IF hasExp THEN DigitsValue(s, c0, c) ELSE 0
        negExp == hasExp /\ signed /\ Char(s, b + 1) = "-"
    IN  IF ~hasDot /\ ~hasExp
        THEN \* leading zeros in a decimal integer literal are a syntax error
             IF s[i] = "0" /\ intVal # 0
             THEN [ok |-> FALSE, v |-> ErrorV, p |-> a]
             ELSE [ok |-> TRUE, v |-> IntV(intVal), p |-> a]
        ELSE IF hasExp /\ c - c0 > 1
        THEN [ok |-> TRUE, v |-> BeyondV, p |-> c]
        ELSE IF negExp
        THEN [ok |-> TRUE, v |-> FloatV(mant, scale * IntPow(10, expVal)), p |-> c]
        ELSE [ok |-> TRUE, v |-> FloatV(mant * IntPow(10, expVal), scale), p |-> c]

\* the tokens of s from position i on: [ok, toks]
RECURSIVE Tokenize(_, _)
Tokenize(s, i) ==
    IF i > Len(s) THEN [ok |-> TRUE, toks |-> <<>>]
    ELSE LET ch == s[i]
             rest(tok, p) ==
                 LET r == Tokenize(s, p)
                 IN  [ok |-> r.ok, toks |-> <<tok>> \o r.toks]
         IN  IF ch = " " THEN Tokenize(s, i + 1)
             ELSE IF ch \in Digits \/ (ch = "." /\ IsDigit(s, i + 1))
             THEN LET num == ScanNumber(s, i)
                  IN  IF num.ok THEN rest(NumTok(num.v), num.p)
                      ELSE [ok |-> FALSE, toks |-> <<>>]
             ELSE IF ch = "." /\ Char(s, i + 1) = "." /\ Char(s, i + 2) = "."
             THEN rest(NumTok(EllipsisV), i + 3)
             ELSE IF ch = "*" /\ Char(s, i + 1) = "*" THEN rest(OpTok("**"), i + 2)
             ELSE IF ch = "/" /\ Char(s, i + 1) = "/" THEN rest(OpTok("//"), i + 2)
             ELSE IF ch \in {"+", "-", "*", "/", "(", ")", ","} THEN rest(OpTok(ch), i + 1)
             ELSE [ok |-> FALSE, toks |-> <<>>]

(***************************************************************************)
(* The evaluator's parser, evaluating as it parses.  Each operator returns *)
(* [ok, v, p]: the value v of the phrase starting at token p and the       *)
(* position after it, or ok = FALSE when the evaluation raises (a syntax   *)
(* error or a runtime error: calculate treats them alike).                 *)
(*   expressions: sum (',' sum)* [',']          a comma makes a tuple      *)
(*   sum:    term (('+' | '-') term)*                                      *)
(*   term:   factor (('*' | '/' | '//') factor)*                           *)
(*   factor: ('+' | '-') factor | power                                    *)
(*   power:  atom ['**' factor]                                            *)
(*   atom:   NUMBER | '...' | '(' ')' | '(' item (',' item)* [','] ')'     *)
(*   item:   sum | '*' sum                                                 *)
(***************************************************************************)
EndTok == [t |-> "end", s |-> "", v |-> NoneV]

Tok(toks, p) == IF p >= 1 /\ p <= Len(toks) THEN toks[p] ELSE EndTok

IsOp(toks, p, ops) == Tok(toks, p).t = "op" /\ Tok(toks, p).s \in ops

Fail == [ok |-> FALSE, v |-> ErrorV, p |-> 0]

Ok(v, p) == IF v.k = "error" THEN Fail ELSE [ok |-> TRUE, v |-> v, p |-> p]

\* Parse(nt, toks, p, acc, commas): the phrase of kind nt starting at token
\* p.  acc is the value to the left of the operator ("sumrest", "termrest")
\* or the items read so far ("items", "expressions"); commas tells whether
\* a comma has been read.
RECURSIVE Parse(_, _, _, _, _)
Parse(nt, toks, p, acc, commas) ==
    CASE nt = "sum" ->
           LET l == Parse("term", toks, p, NoneV, FALSE)
           IN  IF l.ok THEN Parse("sumrest", toks, l.p, l.v, FALSE) ELSE Fail
      [] nt = "sumrest" ->
           IF IsOp(toks, p, {"+", "-"})
           THEN LET r == Parse("term", toks, p + 1, NoneV, FALSE)
                    v == BinOp(toks[p].s, acc, r.v)
                IN  IF r.ok /\ v.k # "error"
                    THEN Parse("sumrest", toks, r.p, v, FALSE) ELSE Fail
           ELSE Ok(acc, p)
      [] nt = "term" ->
           LET l == Parse("factor", toks, p, NoneV, FALSE)
           IN  IF l.ok THEN Parse("termrest", toks, l.p, l.v, FALSE) ELSE Fail
      [] nt = "termrest" ->
           IF IsOp(toks, p, {"*", "/", "//"})
           THEN LET r == Parse("factor", toks, p + 1, NoneV, FALSE)
                    v == BinOp(toks[p].s, acc, r.v)
                IN  IF r.ok /\ v.k # "error"
                    THEN Parse("termrest", toks, r.p, v, FALSE) ELSE Fail
           ELSE Ok(acc, p)
      [] nt = "factor" ->
           IF IsOp(toks, p, {"+", "-"})
           THEN LET f == Parse("factor", toks, p + 1, NoneV, FALSE)
                IN  IF f.ok
                    THEN Ok(IF toks[p].s = "-" THEN PyNeg(f.v) ELSE PyPos(f.v), f.p)
                    ELSE Fail
           ELSE Parse("power", toks, p, NoneV, FALSE)
      [] nt = "power" ->
           LET a == Parse("atom", toks, p, NoneV, FALSE)
           IN  IF ~a.ok THEN Fail
               ELSE IF IsOp(toks, a.p, {"**"})
               THEN LET e == Parse("factor", toks, a.p + 1, NoneV, FALSE)
                    IN  IF e.ok THEN Ok(PyPow(a.v, e.v), e.p) ELSE Fail
               ELSE a
      [] nt = "atom" ->
           LET atom == IF Tok(toks, p).t = "num" THEN Ok(toks[p].v, p + 1)
                       ELSE IF IsOp(toks, p, {"("})
                       THEN IF IsOp(toks, p + 1, {")"}) THEN Ok(TupleV(<<>>), p + 2)
                            ELSE Parse("items", toks, p + 1, <<>>, FALSE)
                       ELSE Fail
           IN  \* a parenthesis after an atom is a call: no value here is callable
               IF atom.ok /\ IsOp(toks, atom.p, {"("}) THEN Fail ELSE atom
      [] nt = "items" ->
           LET star == IsOp(toks, p, {"*"})
               r == Parse("sum", toks, IF star THEN p + 1 ELSE p, NoneV, FALSE)
               unpackable == ~star \/ r.v.k = "tuple"
               items == acc \o (IF star THEN r.v.items ELSE <<r.v>>)
           IN  IF ~r.ok \/ ~unpackable THEN Fail
               ELSE IF IsOp(toks, r.p, {")"})
               THEN IF commas THEN Ok(TupleV(items), r.p + 1)
                    ELSE IF star THEN Fail
                    ELSE Ok(r.v, r.p + 1)
               ELSE IF IsOp(toks, r.p, {","})
               THEN IF IsOp(toks, r.p + 1, {")"}) THEN Ok(TupleV(items), r.p + 2)
                    ELSE Parse("items", toks, r.p + 1, items, TRUE)
               ELSE Fail
      [] nt = "expressions" ->
           LET r == Parse("sum", toks, p, NoneV, FALSE)
               items == Append(acc, r.v)
           IN  IF ~r.ok THEN Fail
               ELSE IF Tok(toks, r.p).t = "end"
               THEN Ok(IF commas THEN TupleV(items) ELSE r.v, r.p)
               ELSE IF IsOp(toks, r.p, {","})
               THEN IF Tok(toks, r.p + 1).t = "end" THEN Ok(TupleV(items), r.p + 1)
                    ELSE Parse("expressions", toks, r.p + 1, items, TRUE)
               ELSE Fail

RECURSIVE HasBeyond(_)
HasBeyond(v) ==
    v.k = "beyond" \/ \E i \in 1..Len(v.items) : HasBeyond(v.items[i])

\* eval(expression): [ok, v, p]; ok = FALSE when the evaluation raises
Eval(expression) ==
    Let(Tokenize(expression, 1),
        LAMBDA t : IF t.ok THEN Parse("expressions", t.toks, 1, <<>>, FALSE)
                   ELSE Fail)

(***************************************************************************)
(* The string methods string_operations uses, on sequences of characters.  *)
(* "sz" stands for the one character U+00DF (sharp s, whose upper case is  *)
(* the two characters SS) and "nl" for the newline character.              *)
(***************************************************************************)
AsciiLower ==
    <<"a", "b", "c", "d", "e", "f", "g", "h", "i", "j", "k", "l", "m",
      "n", "o", "p", "q", "r", "s", "t", "u", "v", "w", "x", "y", "z">>

AsciiUpper ==
    <<"A", "B", "C", "D", "E", "F", "G", "H", "I", "J", "K", "L", "M",
      "N", "O", "P", "Q", "R", "S", "T", "U", "V", "W", "X", "Y", "Z">>

Lowers == Range(AsciiLower) \cup {"sz"}

Uppers == Range(AsciiUpper)

Whitespace == {" ", "nl"}

IsCased(c) == c \in Lowers \cup Uppers

IndexOf(seq, x) == CHOOSE i \in 1..Len(seq) : seq[i] = x

UpperOf(c) ==
    IF c = "sz" THEN <<"S", "S">>
    ELSE IF c \in Range(AsciiLower) THEN <<AsciiUpper[IndexOf(AsciiLower, c)]>>
    ELSE <<c>>

LowerOf(c) ==
    IF c \in Range(AsciiUpper) THEN AsciiLower[IndexOf(AsciiUpper, c)] ELSE c

TitleOf(c) == IF c = "sz" THEN <<"S", "s">> ELSE UpperOf(c)

\* text.swapcase() where the code has text.upper()
RECURSIVE Swapcase(_)
Swapcase(text) ==
    IF text = <<>> THEN <<>>
    ELSE (IF Head(text) \in Uppers THEN <<LowerOf(Head(text))>> ELSE UpperOf(Head(text)))
         \o Swapcase(Tail(text))

RECURSIVE Upper(_)
Upper(text) ==
    IF text = <<>> THEN <<>> ELSE UpperOf(Head(text)) \o Upper(Tail(text))

RECURSIVE Lower(_)
Lower(text) ==
    IF text = <<>> THEN <<>> ELSE <<LowerOf(Head(text))>> \o Lower(Tail(text))

RECURSIVE TitleFrom(_, _)
TitleFrom(text, prevCased) ==
    IF text = <<>> THEN <<>>
    ELSE LET c == Head(text)
             out == IF ~IsCased(c) THEN <<c>>
                    ELSE IF prevCased THEN <<LowerOf(c)>>
                    ELSE TitleOf(c)
         IN  out \o TitleFrom(Tail(text), IsCased(c))

Title(text) == TitleFrom(text, FALSE)

RECURSIVE Reverse(_)
Reverse(text) ==
    IF text = <<>> THEN <<>> ELSE Append(Reverse(Tail(text)), Head(text))

RECURSIVE LStrip(_)
LStrip(text) ==
    IF text # <<>> /\ Head(text) \in Whitespace THEN LStrip(Tail(text)) ELSE text

Strip(text) == Reverse(LStrip(Reverse(LStrip(text))))

Capitalize(text) ==
    IF text = <<>> THEN <<>> ELSE TitleOf(Head(text)) \o Lower(Tail(text))

StartsWith(text, target) ==
    Len(target) <= Len(text) /\ SubSeq(text, 1, Len(target)) = target

RECURSIVE Replace(_, _, _)
Replace(text, target, replacement) ==
    IF target = <<>>
    THEN IF text = <<>> THEN replacement
         ELSE replacement \o <<Head(text)>> \o Replace(Tail(text), target, replacement)
    ELSE IF text = <<>> THEN <<>>
    ELSE IF StartsWith(text, target)
    THEN replacement \o Replace(SubSeq(text, Len(target) + 1, Len(text)), target, replacement)
    ELSE <<Head(text)>> \o Replace(Tail(text), target, replacement)

(***************************************************************************)
(* Values of the string tool's dispatch table, and optional arguments.     *)
(***************************************************************************)
StrV(text) == [k |-> "str", s |-> text, n |-> 0]

LenV(n) == [k |-> "int", s |-> <<>>, n |-> n]

None == [some |-> FALSE, s |-> <<>>]

Some(text) == [some |-> TRUE, s |-> text]

\* the truth value of an Optional[str]: None and the empty string are false
Truthy(opt) == opt.some /\ opt.s # <<>>

(***************************************************************************)
(* The calling context of a handler invocation: the request id the         *)
(* framework supplies and the clock the handler reads for its timestamp.   *)
(***************************************************************************)
RequestIds == {"req-1", "req-2"}

Times == {1, 2}

Contexts == [request_id : RequestIds, now : Times]

NoResponse == [x \in {} |-> x]

\* what an invocation leaves behind: the returned response (none if it
\* raised), the progress values reported, the expressions handed to the
\* evaluator, whether a failure was raised inside the body, and whether the
\* invocation ended by raising to the transport
Outcome(resp, prog, elog, fail, rais) ==
    [response |-> resp, progress |-> prog, evalLog |-> elog,
     failed |-> fail, raised |-> rais]

Returned(resp, prog) == Outcome(resp, prog, <<>>, FALSE, FALSE)

(***************************************************************************)
(* mcp_shared.tools                                                        *)
(***************************************************************************)
get_server_info(server_name, server_type, ctx) ==
    Returned([name |-> server_name,
              type |-> server_type,
              version |-> "0.1.0",
              capabilities |-> {"context_logging", "progress_reporting",
                                "middleware_enabled", "has_prompts",
                                "request_tracking"},
              status |-> "running",
              timestamp |-> ctx.now,
              request_id |-> ctx.request_id],
             <<>>)

allowed_chars ==
    {"0", "1", "2", "3", "4", "5", "6", "7", "8", "9",
     "+", "-", "*", "/", "(", ")", ".", ",", "e", " "}

\* the check with any() where the code has all()
AnyAllowed(expression) ==
    \E i \in 1..Len(expression) : expression[i] \in allowed_chars

AllAllowed(expression) ==
    \A i \in 1..Len(expression) : expression[i] \in allowed_chars

\* the body of calculate's try block: raised = TRUE when eval raises
CalculateTry(expression, ctx) ==
    IF ~AllAllowed(expression)
    THEN Returned([error |-> "Expression contains invalid characters",
                   expression |-> expression,
                   success |-> FALSE],
                  <<25>>)
    ELSE Let(Eval(expression),
             LAMBDA r :
               IF ~r.ok
               THEN Outcome(NoResponse, <<25, 50>>, <<expression>>, TRUE, TRUE)
               ELSE Outcome([expression |-> expression,
                             result |-> r.v,
                             type |-> TypeName(r.v),
                             success |-> TRUE,
                             timestamp |-> ctx.now,
                             request_id |-> ctx.request_id],
                            <<25, 50, 75, 100>>, <<expression>>, FALSE, FALSE))

\* calculate without its except clause
calculate_uncaught(expression, ctx) == CalculateTry(expression, ctx)

\* calculate: the try block and its except clause
calculate(expression, ctx) ==
    Let(CalculateTry(expression, ctx),
        LAMBDA body :
          IF body.raised
          THEN [body EXCEPT !.response = [error |-> "str(e)",
                                          expression |-> expression,
                                          success |-> FALSE,
                                          request_id |-> ctx.request_id],
                            !.raised = FALSE]
          ELSE body)

\* the table with replace added whenever target and replacement are given,
\* whatever the operation
StringTableEager(text, operation, target, replacement) ==
    LET keys == <<"upper", "lower", "title", "reverse", "length", "strip",
                  "capitalize">>
        val == ("upper" :> StrV(Upper(text))) @@
               ("lower" :> StrV(Lower(text))) @@
               ("title" :> StrV(Title(text))) @@
               ("reverse" :> StrV(Reverse(text))) @@
               ("length" :> LenV(Len(text))) @@
               ("strip" :> StrV(Strip(text))) @@
               ("capitalize" :> StrV(Capitalize(text)))
    IN  IF Truthy(target) /\ Truthy(replacement)
        THEN [keys |-> Append(keys, "replace"),
              val |-> val @@ ("replace" :> StrV(Replace(text, target.s, replacement.s)))]
        ELSE [keys |-> keys, val |-> val]

\* the dispatch table of string_operations: its keys in insertion order and
\* the precomputed result of each
StringTable(text, operation, target, replacement) ==
    LET base == ("upper" :> StrV(Upper(text))) @@
                ("lower" :> StrV(Lower(text))) @@
                ("title" :> StrV(Title(text))) @@
                ("reverse" :> StrV(Reverse(text))) @@
                ("length" :> LenV(Len(text))) @@
                ("strip" :> StrV(Strip(text))) @@
                ("capitalize" :> StrV(Capitalize(text)))
        baseKeys == <<"upper", "lower", "title", "reverse", "length", "strip",
                      "capitalize">>
    IN  IF operation = "replace" /\ Truthy(target) /\ Truthy(replacement)
        THEN [keys |-> Append(baseKeys, "replace"),
              val |-> base @@ ("replace" :> StrV(Replace(text, target.s, replacement.s)))]
        ELSE [keys |-> baseKeys, val |-> base]

\* the handler reporting progress 80 and 100 before it looks the operation up
string_operations_reporting_early(text, operation, target, replacement, ctx) ==
    LET operations == StringTable(text, operation, target, replacement)
    IN  IF operation \notin Range(operations.keys)
        THEN Returned([error |-> <<"Unknown operation: ", operation>>,
                       available_operations |-> operations.keys,
                       success |-> FALSE],
                      <<20, 60, 80, 100>>)
        ELSE Returned([original_text |-> text,
                       operation |-> operation,
                       result |-> operations.val[operation],
                       success |-> TRUE,
                       timestamp |-> ctx.now,
                       request_id |-> ctx.request_id],
                      <<20, 60, 80, 100>>)

string_operations(text, operation, target, replacement, ctx) ==
    LET operations == StringTable(text, operation, target, replacement)
    IN  IF operation \notin Range(operations.keys)
        THEN Returned([error |-> <<"Unknown operation: ", operation>>,
                       available_operations |-> operations.keys,
                       success |-> FALSE],
                      <<20, 60>>)
        ELSE Returned([original_text |-> text,
                       operation |-> operation,
                       result |-> operations.val[operation],
                       success |-> TRUE,
                       timestamp |-> ctx.now,
                       request_id |-> ctx.request_id],
                      <<20, 60, 80, 100>>)

(***************************************************************************)
(* Pseudo-random draws.  A handler that draws is given a stream of levels  *)
(* 0..RandLevels, read cyclically: draw number j of the invocation takes   *)
(* level rand[j mod RandPeriod], level 0 the least and RandLevels the      *)
(* greatest value the generator can return.                                *)
(***************************************************************************)
RandLevels == 2

RandPeriod == 2

RandStreams == [1..RandPeriod -> 0..RandLevels]

Draw(rand, j) == rand[((j - 1) % Len(rand)) + 1]

\* random.randint(a, b) at level u
randint(a, b, u) == a + (u * (b - a)) \div RandLevels

\* random.choice(seq) at level u
choice(seq, u) == seq[randint(1, Len(seq), u)]

\* range(1, n) where the code has range(n)
range_from_one(n) == [i \in 1..(n - 1) |-> i]

\* range(n) as the sequence 0, 1, .., n-1 (empty when n <= 0)
range(n) == [i \in 1..n |-> i - 1]

DataItem(k, n, m) == [k |-> k, n |-> n, m |-> m]

MaxItems == 100

\* generate_data without its limit check
LimitCountOff(count) == count

\* the count generate_data works with after its limit check
LimitCount(count) == IF count > MaxItems THEN MaxItems ELSE count

GeneratorNames == <<"numbers", "floats", "strings", "booleans", "dates", "colors">>

Colors == <<"red", "blue", "green", "yellow", "purple", "orange">>

\* generators[data_type](): item i takes draw i + 1
Generate(data_type, count, rand, ctx) ==
    LET u(i) == Draw(rand, i + 1)
        idx == range(count)
    IN  CASE data_type = "numbers" ->
               [j \in DOMAIN idx |-> DataItem("int", randint(1, 1000, u(idx[j])), 0)]
          [] data_type = "floats" ->
               \* round(random.uniform(0, 100), 2), in hundredths
               [j \in DOMAIN idx |-> DataItem("float", randint(0, 10000, u(idx[j])), 100)]
          [] data_type = "strings" ->
               \* item_{i}_{randint(100, 999)}
               [j \in DOMAIN idx |-> DataItem("str", idx[j], randint(100, 999, u(idx[j])))]
          [] data_type = "booleans" ->
               [j \in DOMAIN idx |-> DataItem("bool", choice(<<1, 0>>, u(idx[j])), 0)]
          [] data_type = "dates" ->
               \* the day randint(0, 365) days before now
               [j \in DOMAIN idx |-> DataItem("date", randint(0, 365, u(idx[j])), ctx.now)]
          [] data_type = "colors" ->
               [j \in DOMAIN idx |-> DataItem(choice(Colors, u(idx[j])), 0, 0)]

generate_data(data_type, count, rand, ctx) ==
    LET limited == LimitCount(count)
    IN  IF data_type \notin Range(GeneratorNames)
        THEN Returned([error |-> <<"Unknown data type: ", data_type>>,
                       available_types |-> GeneratorNames,
                       success |-> FALSE],
                      <<10, 30, 50>>)
        ELSE LET data == Generate(data_type, limited, rand, ctx)
             IN  Returned([data_type |-> data_type,
                           count |-> Len(data),
                           data |-> data,
                           success |-> TRUE,
                           timestamp |-> ctx.now,
                           request_id |-> ctx.request_id],
                          <<10, 30, 50, 70, 90, 100>>)

(***************************************************************************)
(* stdio-server/main.py: tools                                             *)
(***************************************************************************)
get_current_time(timezone, ctx) ==
    Returned([current_time |-> ctx.now,
              timezone |-> timezone,
              timestamp |-> ctx.now,
              formatted |-> ctx.now,
              request_id |-> ctx.request_id],
             <<>>)

NumLess(a, b) == a.n * b.d < b.n * a.d

RECURSIVE Sum(_)
Sum(numbers) ==
    IF numbers = <<>> THEN IntV(0) ELSE PyAdd(Sum(Tail(numbers)), Head(numbers))

RECURSIVE Insert(_, _)
Insert(sorted, x) ==
    IF sorted = <<>> THEN <<x>>
    ELSE IF NumLess(x, Head(sorted)) THEN <<x>> \o sorted
    ELSE <<Head(sorted)>> \o Insert(Tail(sorted), x)

RECURSIVE Sorted(_)
Sorted(numbers) ==
    IF numbers = <<>> THEN <<>>
    ELSE Insert(Sorted(SubSeq(numbers, 1, Len(numbers) - 1)), numbers[Len(numbers)])

Min(numbers) == Sorted(numbers)[1]

Max(numbers) == Sorted(numbers)[Len(numbers)]

\* the lower middle element, (len - 1) // 2, where the code has len // 2
MedianLower(numbers) == Sorted(numbers)[((Len(numbers) - 1) \div 2) + 1]

Median(numbers) == Sorted(numbers)[(Len(numbers) \div 2) + 1]

MathOpNames == <<"sum", "average", "min", "max", "median", "count">>

\* the dispatch table of math_operations, built for a non-empty list
MathTable(numbers) ==
    ("sum" :> Sum(numbers)) @@
    ("average" :> PyTrueDiv(Sum(numbers), IntV(Len(numbers)))) @@
    ("min" :> Min(numbers)) @@
    ("max" :> Max(numbers)) @@
    ("median" :> Median(numbers)) @@
    ("count" :> IntV(Len(numbers)))

\* math_operations with the guard `if numbers is None`, which no list
\* meets: the average of the empty list raises ZeroDivisionError, and
\* math_operations has no except clause
math_operations_unguarded(numbers, operation, ctx) ==
    IF numbers = <<>>
    THEN Outcome(NoResponse, <<25>>, <<>>, TRUE, TRUE)
    ELSE IF operation \notin Range(MathOpNames)
    THEN Returned([error |-> <<"Unknown operation: ", operation>>,
                   available_operations |-> MathOpNames,
                   success |-> FALSE],
                  <<25, 75>>)
    ELSE Returned([operation |-> operation,
                   result |-> MathTable(numbers)[operation],
                   input_count |-> Len(numbers),
                   success |-> TRUE,
                   timestamp |-> ctx.now,
                   request_id |-> ctx.request_id],
                  <<25, 75, 100>>)

math_operations(numbers, operation, ctx) ==
    IF numbers = <<>>
    THEN Returned([error |-> "No numbers provided", success |-> FALSE], <<25>>)
    ELSE IF operation \notin Range(MathOpNames)
    THEN Returned([error |-> <<"Unknown operation: ", operation>>,
                   available_operations |-> MathOpNames,
                   success |-> FALSE],
                  <<25, 75>>)
    ELSE Returned([operation |-> operation,
                   result |-> MathTable(numbers)[operation],
                   input_count |-> Len(numbers),
                   success |-> TRUE,
                   timestamp |-> ctx.now,
                   request_id |-> ctx.request_id],
                  <<25, 75, 100>>)

\* text.split(sep) for a non-empty separator: the segments between its
\* occurrences; cur is the segment being read
RECURSIVE SplitFrom(_, _, _)
SplitFrom(text, sep, cur) ==
    IF text = <<>> THEN <<cur>>
    ELSE IF StartsWith(text, sep)
    THEN <<cur>> \o SplitFrom(SubSeq(text, Len(sep) + 1, Len(text)), sep, <<>>)
    ELSE SplitFrom(Tail(text), sep, Append(cur, Head(text)))

Split(text, sep) == SplitFrom(text, sep, <<>>)

\* text.split(): the maximal runs of non-whitespace characters
RECURSIVE WordsFrom(_, _)
WordsFrom(text, cur) ==
    IF text = <<>> THEN (IF cur = <<>> THEN <<>> ELSE <<cur>>)
    ELSE IF Head(text) \in Whitespace
    THEN (IF cur = <<>> THEN <<>> ELSE <<cur>>) \o WordsFrom(Tail(text), <<>>)
    ELSE WordsFrom(Tail(text), Append(cur, Head(text)))

Words(text) == WordsFrom(text, <<>>)

\* text.splitlines(): the lines, without a last empty one
SplitLines(text) ==
    LET parts == Split(text, <<"nl">>)
    IN  IF parts[Len(parts)] = <<>> THEN SubSeq(parts, 1, Len(parts) - 1) ELSE parts

RECURSIVE TotalLen(_)
TotalLen(words) ==
    IF words = <<>> THEN 0 ELSE Len(Head(words)) + TotalLen(Tail(words))

\* the number of segments that are not blank
NonBlank(parts) == Cardinality({i \in 1..Len(parts) : Strip(parts[i]) # <<>>})

AnalysisNames == <<"basic", "detailed">>

AnalysisTable(text) ==
    LET word_count == Len(Words(text))
        char_count == Len(text)
        line_count == Len(SplitLines(text))
    IN  ("basic" :>
            [character_count |-> char_count,
             word_count |-> word_count,
             line_count |-> line_count,
             average_word_length |->
                 IF word_count > 0
                 THEN PyTrueDiv(IntV(TotalLen(Words(text))), IntV(word_count))
                 ELSE IntV(0)]) @@
        ("detailed" :>
            [character_count |-> char_count,
             word_count |-> word_count,
             line_count |-> line_count,
             unique_words |-> Cardinality(Range(Words(Lower(text)))),
             sentences |-> NonBlank(Split(text, <<".">>)),
             paragraphs |-> NonBlank(Split(text, <<"nl", "nl">>))])

PreviewLen == 100

text_analyzer(text, analysis_type, ctx) ==
    IF analysis_type \notin Range(AnalysisNames)
    THEN Returned([error |-> <<"Unknown analysis type: ", analysis_type>>,
                   available_types |-> AnalysisNames,
                   success |-> FALSE],
                  <<20, 50, 80>>)
    ELSE Returned([analysis_type |-> analysis_type,
                   results |-> AnalysisTable(text)[analysis_type],
                   text_preview |-> IF Len(text) > PreviewLen
                                    THEN SubSeq(text, 1, PreviewLen) \o <<".", ".", ".">>
                                    ELSE text,
                   success |-> TRUE,
                   timestamp |-> ctx.now,
                   request_id |-> ctx.request_id],
                  <<20, 50, 80, 100>>)

\* str(n) of an integer
RECURSIVE NatStr(_)
NatStr(n) ==
    IF n < 10 THEN <<DigitChars[n + 1]>>
    ELSE Append(NatStr(n \div 10), DigitChars[(n % 10) + 1])

PyStr(v) == IF v.n < 0 THEN <<"-">> \o NatStr(-v.n) ELSE NatStr(v.n)

CharOrd(c) == IF c = "-" THEN 0 ELSE DigitVal(c) + 1

\* the order of strings of digits and signs
RECURSIVE StrLess(_, _)
StrLess(a, b) ==
    IF b = <<>> THEN FALSE
    ELSE IF a = <<>> THEN TRUE
    ELSE IF Head(a) # Head(b) THEN CharOrd(Head(a)) < CharOrd(Head(b))
    ELSE StrLess(Tail(a), Tail(b))

RECURSIVE InsertStr(_, _)
InsertStr(sorted, x) ==
    IF sorted = <<>> THEN <<x>>
    ELSE IF StrLess(x, Head(sorted)) THEN <<x>> \o sorted
    ELSE <<Head(sorted)>> \o InsertStr(Tail(sorted), x)

RECURSIVE SortedStr(_)
SortedStr(strs) ==
    IF strs = <<>> THEN <<>>
    ELSE InsertStr(SortedStr(SubSeq(strs, 1, Len(strs) - 1)), strs[Len(strs)])

\* the orders in which a set can be iterated
Orders(S) == {f \in [1..Cardinality(S) -> S] : Range(f) = S}

\* what random.sample(population, k) can pick: k distinct positions of n
Samples(n, k) == {f \in [1..k -> 1..n] : \A i, j \in 1..k : f[i] = f[j] => i = j}

SampleSize == 5

ProcessorOpNames == <<"sort", "reverse", "unique", "frequency", "sample">>

\* the dispatch table of data_processor; order is the iteration order of
\* set(str_data), picks the positions random.sample draws
ProcessorTable(str_data, order, picks) ==
    ("sort" :> SortedStr(str_data)) @@
    ("reverse" :> Reverse(str_data)) @@
    ("unique" :> order) @@
    ("frequency" :>
        [item \in Range(str_data) |->
            Cardinality({i \in 1..Len(str_data) : str_data[i] = item})]) @@
    ("sample" :> [i \in DOMAIN picks |-> str_data[picks[i]]])

data_processor(data, operation, order, picks, ctx) ==
    LET str_data == [i \in DOMAIN data |-> PyStr(data[i])]
    IN  IF operation \notin Range(ProcessorOpNames)
        THEN Returned([error |-> <<"Unknown operation: ", operation>>,
                       available_operations |-> ProcessorOpNames,
                       success |-> FALSE],
                      <<30, 70>>)
        ELSE LET result == ProcessorTable(str_data, order, picks)[operation]
             IN  Returned([operation |-> operation,
                           result |-> result,
                           input_count |-> Len(data),
                           output_count |-> IF operation = "frequency" THEN 1
                                            ELSE Len(result),
                           success |-> TRUE,
                           timestamp |-> ctx.now,
                           request_id |-> ctx.request_id],
                          <<30, 70, 100>>)

GreetingLanguages == <<"en", "es">>

GreetingStyles == <<"formal", "casual", "professional", "friendly">>

greet_advanced(name, style, language, ctx) ==
    IF language \notin Range(GreetingLanguages) \/ style \notin Range(GreetingStyles)
    THEN Returned([error |-> "Unsupported language or style",
                   available_languages |-> GreetingLanguages,
                   available_styles |-> GreetingStyles,
                   success |-> FALSE],
                  <<>>)
    ELSE Returned([greeting |-> [language |-> language, style |-> style, name |-> name],
                   name |-> name,
                   style |-> style,
                   language |-> language,
                   success |-> TRUE,
                   timestamp |-> ctx.now,
                   request_id |-> ctx.request_id],
                  <<>>)

(***************************************************************************)
(* stdio-server/main.py: resources                                         *)
(***************************************************************************)
server_status_resource(ctx) ==
    Returned([server_name |-> "Enhanced STDIO MCP Server",
              server_type |-> "stdio",
              status |-> "running",
              uptime |-> "active session",
              capabilities |-> <<"mathematical_operations", "text_analysis",
                                 "data_processing", "personalized_greetings",
                                 "context_logging", "progress_reporting",
                                 "middleware_support">>,
              features |-> {"shared_components", "middleware_enabled",
                            "context_aware", "progress_tracking"},
              timestamp |-> ctx.now,
              request_id |-> ctx.request_id],
             <<>>)

SampleCount == 5

StdioSampleNames == <<"users", "tasks", "logs">>

LogLevels == <<"INFO", "WARN", "ERROR">>

\* sample_generators[data_type]() of the stdio server: items 1..5
StdioSample(data_type, rand, ctx) ==
    CASE data_type = "users" ->
           [i \in 1..SampleCount |-> [id |-> i, name |-> <<"User", i>>,
                                      email |-> <<"user", i, "@example.com">>]]
      [] data_type = "tasks" ->
           [i \in 1..SampleCount |-> [id |-> i, title |-> <<"Task ", i>>,
                                      completed |-> choice(<<TRUE, FALSE>>, Draw(rand, i))]]
      [] data_type = "logs" ->
           [i \in 1..SampleCount |-> [timestamp |-> ctx.now,
                                      level |-> choice(LogLevels, Draw(rand, i)),
                                      message |-> <<"Log entry ", i>>]]

\* the sample-data resource of either server: names its generator table,
\* sample(data_type) its generated list
SampleResource(data_type, names, sample, ctx) ==
    IF data_type \notin Range(names)
    THEN Returned([error |-> <<"Unknown data type: ", data_type>>,
                   available_types |-> names],
                  <<>>)
    ELSE Returned([resource_type |-> "sample_data",
                   data_type |-> data_type,
                   count |-> Len(sample),
                   data |-> sample,
                   generated_at |-> ctx.now,
                   request_id |-> ctx.request_id],
                  <<>>)

stdio_sample_data_resource(data_type, rand, ctx) ==
    SampleResource(data_type, StdioSampleNames,
                   IF data_type \in Range(StdioSampleNames)
                   THEN StdioSample(data_type, rand, ctx) ELSE <<>>,
                   ctx)

\* sub in text, for strings
Contains(text, sub) ==
    \E i \in 1..(Len(text) - Len(sub) + 1) : SubSeq(text, i, i + Len(sub) - 1) = sub

SensitiveEnvWords == {<<"p", "a", "s", "s", "w", "o", "r", "d">>, <<"t", "o", "k", "e", "n">>,
                      <<"k", "e", "y">>, <<"s", "e", "c", "r", "e", "t">>}

\* the filter with `sensitive in k`, the name not lower-cased
SensitiveEnvExact(name) == \E w \in SensitiveEnvWords : Contains(name, w)

SensitiveEnv(name) == \E w \in SensitiveEnvWords : Contains(Lower(name), w)

system_info_resource(env, ctx) ==
    Returned([python_version |-> "3.12+",
              working_directory |-> "cwd",
              environment_variables |->
                  [k \in {n \in DOMAIN env : ~SensitiveEnv(n)} |-> env[k]],
              server_type |-> "stdio",
              capabilities |-> {"context_logging", "progress_reporting",
                                "middleware_enabled", "shared_components"},
              timestamp |-> ctx.now,
              request_id |-> ctx.request_id],
             <<>>)

(***************************************************************************)
(* http-server/main.py: tools                                              *)
(***************************************************************************)
SensitiveHeaderWords == {<<"a", "u", "t", "h", "o", "r", "i", "z", "a", "t", "i", "o", "n">>,
                         <<"c", "o", "o", "k", "i", "e">>, <<"t", "o", "k", "e", "n">>}

\* the filter with `sensitive in k`, the name not lower-cased
SensitiveHeaderExact(name) == \E w \in SensitiveHeaderWords : Contains(name, w)

SensitiveHeader(name) == \E w \in SensitiveHeaderWords : Contains(Lower(name), w)

\* headers.get(name, 'unknown')
HeaderGet(headers, name) ==
    IF name \in DOMAIN headers THEN headers[name] ELSE "unknown"

\* the body of inspect_request's try block: get_http_request raises when
\* the call carries no HTTP request
InspectTry(request, ctx) ==
    IF ~request.available
    THEN Outcome(NoResponse, <<>>, <<>>, TRUE, TRUE)
    ELSE Returned([method |-> request.method,
                   url |-> request.url,
                   path |-> request.path,
                   query_params |-> request.query_params,
                   headers |-> [k \in {n \in DOMAIN request.headers :
                                          ~SensitiveHeader(n)} |-> request.headers[k]],
                   client_host |-> IF request.client = "" THEN "unknown"
                                   ELSE request.client,
                   content_type |-> HeaderGet(request.headers, <<"c", "o", "n", "t", "e", "n", "t", "-", "t", "y", "p", "e">>),
                   user_agent |-> HeaderGet(request.headers, <<"u", "s", "e", "r", "-", "a", "g", "e", "n", "t">>),
                   request_id |-> ctx.request_id,
                   timestamp |-> ctx.now],
                  <<>>)

\* inspect_request without its except clause
inspect_request_uncaught(request, ctx) == InspectTry(request, ctx)

inspect_request(request, ctx) ==
    LET body == InspectTry(request, ctx)
    IN  IF body.raised
        THEN [body EXCEPT !.response = [error |-> "Request inspection failed: str(e)",
                                        success |-> FALSE,
                                        request_id |-> ctx.request_id],
                          !.raised = FALSE]
        ELSE body

TemperatureNames == <<"celsius", "fahrenheit">>

Conditions == <<"sunny", "cloudy", "rainy", "snowy", "foggy", "windy">>

\* random.randint over the range of the given units
Temperature(units, u) ==
    IF units = "celsius" THEN randint(-10, 35, u) ELSE randint(14, 95, u)

get_weather(location, units, rand, ctx) ==
    LET temperatures == ("celsius" :> Temperature("celsius", Draw(rand, 1))) @@
                        ("fahrenheit" :> Temperature("fahrenheit", Draw(rand, 2)))
        used == IF units \notin Range(TemperatureNames) THEN "celsius" ELSE units
    IN  Returned([location |-> location,
                  temperature |-> temperatures[used],
                  units |-> used,
                  condition |-> choice(Conditions, Draw(rand, 3)),
                  humidity |-> randint(30, 90, Draw(rand, 4)),
                  wind_speed |-> randint(0, 30, Draw(rand, 5)),
                  forecast |-> [today |-> <<choice(Conditions, Draw(rand, 6)),
                                            temperatures[used]>>,
                                tomorrow |-> <<choice(Conditions, Draw(rand, 7)),
                                               Temperature(used, Draw(rand, 8))>>],
                  last_updated |-> ctx.now,
                  request_id |-> ctx.request_id],
                 <<25, 50, 75, 100>>)

MaxRepeat == 10

FormatNames == <<"plain", "upper", "lower", "reverse", "title", "emoji">>

\* formats[format_type](message); "emoji" stands for the emoji character
Format(format_type, message) ==
    CASE format_type = "plain"   -> message
      [] format_type = "upper"   -> Upper(message)
      [] format_type = "lower"   -> Lower(message)
      [] format_type = "reverse" -> Reverse(message)
      [] format_type = "title"   -> Title(message)
      [] format_type = "emoji"   -> <<"emoji", " ">> \o message \o <<" ", "emoji">>

echo_advanced(message, format_type, repeat, ctx) ==
    LET times == IF repeat > MaxRepeat THEN MaxRepeat ELSE repeat
        used == IF format_type \notin Range(FormatNames) THEN "plain" ELSE format_type
    IN  Returned([original_message |-> message,
                  format_type |-> used,
                  repeat_count |-> times,
                  result |-> Repeat(<<Format(used, message)>>, times),
                  success |-> TRUE,
                  timestamp |-> ctx.now,
                  request_id |-> ctx.request_id],
                 <<>>)

(***************************************************************************)
(* http-server/main.py: resources                                          *)
(***************************************************************************)
server_info_resource(ctx) ==
    Returned([server_name |-> "Enhanced HTTP MCP Server",
              server_type |-> "http",
              transport |-> "streamable-http",
              status |-> "running",
              host |-> "localhost",
              port |-> 8000,
              path |-> "/mcp",
              capabilities |-> <<"mathematical_calculations", "string_operations",
                                 "data_generation", "weather_simulation",
                                 "http_request_inspection", "message_echo",
                                 "context_logging", "progress_reporting">>,
              features |-> {"shared_components", "middleware_enabled",
                            "context_aware", "http_specific"},
              timestamp |-> ctx.now,
              request_id |-> ctx.request_id],
             <<>>)

HttpSampleNames == <<"users", "products", "orders">>

\* sample_generators[data_type]() of the HTTP server: items 1..5
HttpSample(data_type, rand) ==
    CASE data_type = "users" ->
           [i \in 1..SampleCount |-> [id |-> i, name |-> <<"User", i>>,
                                      email |-> <<"user", i, "@example.com">>,
                                      active |-> choice(<<TRUE, FALSE>>, Draw(rand, i))]]
      [] data_type = "products" ->
           \* round(random.uniform(10, 100), 2), in hundredths
           [i \in 1..SampleCount |-> [id |-> i, name |-> <<"Product", i>>,
                                      price |-> randint(1000, 10000, Draw(rand, i))]]
      [] data_type = "orders" ->
           [i \in 1..SampleCount |-> [id |-> i,
                                      user_id |-> randint(1, 5, Draw(rand, 2 * i - 1)),
                                      total |-> randint(2000, 20000, Draw(rand, 2 * i))]]

http_sample_data_resource(data_type, rand, ctx) ==
    SampleResource(data_type, HttpSampleNames,
                   IF data_type \in Range(HttpSampleNames)
                   THEN HttpSample(data_type, rand) ELSE <<>>,
                   ctx)

ForecastConditions == <<"sunny", "cloudy", "rainy", "snowy", "foggy">>

ForecastDays == 5

weather_forecast_resource(city, rand, ctx) ==
    Returned([city |-> city,
              current_weather |->
                  [temperature |-> randint(-10, 35, Draw(rand, 1)),
                   condition |-> choice(ForecastConditions, Draw(rand, 2)),
                   humidity |-> randint(30, 90, Draw(rand, 3)),
                   wind_speed |-> randint(0, 30, Draw(rand, 4))],
              forecast_days |->
                  [i \in 1..ForecastDays |->
                      [day |-> i,
                       condition |-> choice(ForecastConditions, Draw(rand, 3 * i + 2)),
                       high |-> randint(20, 35, Draw(rand, 3 * i + 3)),
                       low |-> randint(-5, 15, Draw(rand, 3 * i + 4))]],
              last_updated |-> ctx.now,
              request_id |-> ctx.request_id],
             <<>>)

(***************************************************************************)
(* The two server assemblies and what each registers.                      *)
(***************************************************************************)
Servers == {"stdio", "http"}

SharedTools == {"get_server_info", "calculate", "string_operations", "generate_data"}

Tools(server) ==
    IF server = "stdio"
    THEN SharedTools \cup {"get_current_time", "math_operations", "text_analyzer",
                           "data_processor", "greet_advanced"}
    ELSE SharedTools \cup {"inspect_request", "get_weather", "echo_advanced"}

Resources(server) ==
    IF server = "stdio"
    THEN {"server_status_resource", "sample_data_resource", "system_info_resource"}
    ELSE {"server_info_resource", "sample_data_resource", "weather_forecast_resource"}

Prompts(server) ==
    IF server = "stdio"
    THEN {"data_analysis_prompt", "troubleshooting_guide"}
    ELSE {"data_analysis_prompt", "web_api_request", "http_debugging_guide"}

\* the callback tables a server holds once its module is loaded
Registry ==
    [server \in Servers |->
        [tool |-> Tools(server), resource |-> Resources(server),
         prompt |-> Prompts(server)]]

ServerName(server) ==
    IF server = "stdio" THEN "Enhanced STDIO MCP Server" ELSE "Enhanced HTTP MCP Server"

ServerType(server) == IF server = "stdio" THEN "STDIO" ELSE "HTTP"

(***************************************************************************)
(* The inputs the model calls the handlers with.                           *)
(***************************************************************************)
ExprAlphabet ==
    {"0", "1", "2", "+", "-", "*", "/", "(", ")", ",", ".", "e", " ", ";"}

\* "10 + 5 * 2", "2+2;import os", "1/(1-1)", "(1,)*2"
ExampleExpressions ==
    {<<"1", "0", " ", "+", " ", "5", " ", "*", " ", "2">>,
     <<"2", "+", "2", ";", "i", "m", "p", "o", "r", "t", " ", "o", "s">>,
     <<"1", "/", "(", "1", "-", "1", ")">>,
     <<"(", "1", ",", ")", "*", "2">>}

\* the expressions whose value the model's numbers can hold
Expressions ==
    {x \in StringsUpTo(ExprAlphabet, MaxLen) \cup ExampleExpressions :
        ~HasBeyond(Eval(x).v)}

TextAlphabet == {"a", "B", "sz", " "}

Texts == StringsUpTo(TextAlphabet, MaxTextLen)

OperationInputs ==
    {"upper", "lower", "title", "reverse", "length", "strip", "capitalize",
     "replace", "bogus"}

\* (target, replacement) pairs
ReplaceInputs ==
    {<<None, None>>, <<Some(<<"a">>), Some(<<"B">>)>>, <<Some(<<"a">>), None>>,
     <<Some(<<"a">>), Some(<<>>)>>, <<Some(<<>>), Some(<<"B">>)>>}

DataTypeInputs == Range(GeneratorNames) \cup {"bogus"}

CountInputs == {-2, 0, 1, 3, 100, 101, 1000}

NumberSamples == {IntV(1), IntV(2), IntV(3), IntV(4)}

ToFloat(v) == FloatV(v.n, v.d)

\* [1, 2, 3, 4]
ExampleNumbers == {<<IntV(1), IntV(2), IntV(3), IntV(4)>>}

\* lists of floats of at most MaxNumbers elements, and the example list
NumberLists ==
    {[i \in DOMAIN l |-> ToFloat(l[i])] :
        l \in StringsUpTo(NumberSamples, MaxNumbers) \cup ExampleNumbers}

MathOpInputs == Range(MathOpNames) \cup {"bogus"}

AnalyzerAlphabet == {"a", "B", " ", ".", "nl"}

AnalyzerTexts == StringsUpTo(AnalyzerAlphabet, MaxTextLen)

AnalysisInputs == Range(AnalysisNames) \cup {"bogus"}

MaxData == 2

DataLists == StringsUpTo({IntV(1), IntV(2), IntV(10)}, MaxData)

ProcessorOpInputs == Range(ProcessorOpNames) \cup {"statistics"}

NameInputs == {<<>>, <<"A", "l">>}

StyleInputs == Range(GreetingStyles) \cup {"bogus"}

LanguageInputs == Range(GreetingLanguages) \cup {"fr"}

TimezoneInputs == {"UTC", "bogus"}

StdioSampleInputs == Range(StdioSampleNames) \cup {"bogus"}

HttpSampleInputs == Range(HttpSampleNames) \cup {"bogus"}

EnvNames == {<<"P", "A", "T", "H">>, <<"A", "P", "I", "_", "K", "E", "Y">>,
             <<"T", "o", "k", "e", "n">>, <<"H", "O", "M", "E">>,
             <<"p", "a", "s", "s", "w", "o", "r", "d">>,
             <<"M", "y", "S", "e", "c", "r", "e", "t">>}

EnvValues == {"v1", "v2"}

Environments == UNION {[S -> EnvValues] : S \in SUBSET EnvNames}

HeaderNames == {<<"a", "u", "t", "h", "o", "r", "i", "z", "a", "t", "i", "o", "n">>,
                <<"C", "o", "o", "k", "i", "e">>,
                <<"c", "o", "n", "t", "e", "n", "t", "-", "t", "y", "p", "e">>,
                <<"u", "s", "e", "r", "-", "a", "g", "e", "n", "t">>,
                <<"X", "-", "T", "o", "k", "e", "n">>}

HeaderValues == {"h1", "h2"}

Requests ==
    {[available |-> FALSE, method |-> "", url |-> "", path |-> "",
      query_params |-> <<>>, headers |-> <<>>, client |-> ""]}
    \cup
    {[available |-> TRUE, method |-> "POST", url |-> "http://localhost:8000/mcp",
      path |-> "/mcp", query_params |-> <<>>, headers |-> h, client |-> c] :
        h \in UNION {[S -> HeaderValues] : S \in SUBSET HeaderNames},
        c \in {"", "127.0.0.1"}}

LocationInputs == {"Beijing"}

UnitsInputs == Range(TemperatureNames) \cup {"kelvin"}

MessageInputs == {<<>>, <<"a", "B">>}

FormatInputs == Range(FormatNames) \cup {"bogus"}

RepeatInputs == {-1, 0, 1, 3, 10, 11}

(***************************************************************************)
(* The state machine: one handler invocation at a time.  Handlers share no *)
(* state, so concurrent invocations do not affect each other.              *)
(***************************************************************************)
NoCall == [server |-> "", kind |-> "", name |-> "", args |-> <<>>, ctx |-> <<>>]

NoPrev == [set |-> FALSE, operation |-> "", result |-> <<>>]

\* the test client before it is started
NoClient == [pc |-> "off"]

ServerInit ==
    /\ pc = "idle"
    /\ call = NoCall
    /\ response = NoResponse
    /\ progress = <<>>
    /\ evalLog = <<>>
    /\ failed = FALSE
    /\ raised = FALSE
    /\ prev = NoPrev
    /\ registered = Registry

Init ==
    /\ ServerInit
    /\ client = NoClient

\* a dispatch whose handler adds a callback to the server's tool table
InvokeRegistering(server, kind, name, args, ctx, out) ==
    /\ name \in registered[server][kind]
    /\ pc' = "done"
    /\ call' = [server |-> server, kind |-> kind, name |-> name, args |-> args,
                ctx |-> ctx]
    /\ \E o \in {out} :
           /\ response' = o.response
           /\ progress' = o.progress
           /\ evalLog' = o.evalLog
           /\ failed' = o.failed
           /\ raised' = o.raised
    /\ registered' = [registered EXCEPT ![server].tool = @ \cup {name \o "_again"}]
    /\ UNCHANGED <<prev, client>>

\* the framework dispatches a call to a handler the server registers and
\* takes what the handler returns or raises
Invoke(server, kind, name, args, ctx, out) ==
    /\ name \in registered[server][kind]
    /\ pc' = "done"
    /\ call' = [server |-> server, kind |-> kind, name |-> name, args |-> args,
                ctx |-> ctx]
    /\ \E o \in {out} :
           /\ response' = o.response
           /\ progress' = o.progress
           /\ evalLog' = o.evalLog
           /\ failed' = o.failed
           /\ raised' = o.raised
    /\ UNCHANGED <<prev, registered, client>>

GetServerInfo ==
    /\ pc = "idle"
    /\ \E server \in Servers, ctx \in Contexts :
           Invoke(server, "tool", "get_server_info", <<>>, ctx,
                  get_server_info(ServerName(server), ServerType(server), ctx))

Calculate ==
    /\ pc = "idle"
    /\ \E server \in Servers, expression \in Expressions, ctx \in Contexts :
           Invoke(server, "tool", "calculate", <<expression>>, ctx,
                  calculate(expression, ctx))

StringOperations ==
    /\ pc = "idle"
    /\ \E server \in Servers, text \in Texts, operation \in OperationInputs,
          tr \in ReplaceInputs, ctx \in Contexts :
           Invoke(server, "tool", "string_operations",
                  <<text, operation, tr[1], tr[2]>>, ctx,
                  string_operations(text, operation, tr[1], tr[2], ctx))

\* a client feeds the result of a string operation back to the same operation
StringOperationsAgain ==
    /\ pc = "done"
    /\ call.name = "string_operations"
    /\ ~prev.set
    /\ response.success
    /\ response.result.k = "str"
    /\ \E ctx \in Contexts :
        LET text == response.result.s
            out == string_operations(text, call.args[2], call.args[3],
                                     call.args[4], ctx)
        IN  /\ call' = [call EXCEPT !.args[1] = text, !.ctx = ctx]
            /\ response' = out.response
            /\ progress' = out.progress
            /\ evalLog' = out.evalLog
            /\ failed' = out.failed
            /\ raised' = out.raised
    /\ prev' = [set |-> TRUE, operation |-> call.args[2], result |-> response.result]
    /\ pc' = "done"
    /\ UNCHANGED <<registered, client>>

GenerateData ==
    /\ pc = "idle"
    /\ \E server \in Servers, data_type \in DataTypeInputs, count \in CountInputs,
          rand \in RandStreams, ctx \in Contexts :
           Invoke(server, "tool", "generate_data", <<data_type, count>>, ctx,
                  generate_data(data_type, count, rand, ctx))

GetCurrentTime ==
    /\ pc = "idle"
    /\ \E timezone \in TimezoneInputs, ctx \in Contexts :
           Invoke("stdio", "tool", "get_current_time", <<timezone>>, ctx,
                  get_current_time(timezone, ctx))

MathOperations ==
    /\ pc = "idle"
    /\ \E numbers \in NumberLists, operation \in MathOpInputs, ctx \in Contexts :
           Invoke("stdio", "tool", "math_operations", <<numbers, operation>>, ctx,
                  math_operations(numbers, operation, ctx))

TextAnalyzer ==
    /\ pc = "idle"
    /\ \E text \in AnalyzerTexts, analysis_type \in AnalysisInputs, ctx \in Contexts :
           Invoke("stdio", "tool", "text_analyzer", <<text, analysis_type>>, ctx,
                  text_analyzer(text, analysis_type, ctx))

DataProcessor ==
    /\ pc = "idle"
    /\ \E data \in DataLists, operation \in ProcessorOpInputs, ctx \in Contexts :
           LET strs == {PyStr(data[i]) : i \in 1..Len(data)}
               size == IF Len(data) < SampleSize THEN Len(data) ELSE SampleSize
           IN  \E order \in Orders(strs), picks \in Samples(Len(data), size) :
                   Invoke("stdio", "tool", "data_processor", <<data, operation>>, ctx,
                          data_processor(data, operation, order, picks, ctx))

GreetAdvanced ==
    /\ pc = "idle"
    /\ \E name \in NameInputs, style \in StyleInputs, language \in LanguageInputs,
          ctx \in Contexts :
           Invoke("stdio", "tool", "greet_advanced", <<name, style, language>>, ctx,
                  greet_advanced(name, style, language, ctx))

ServerStatusResource ==
    /\ pc = "idle"
    /\ \E ctx \in Contexts :
           Invoke("stdio", "resource", "server_status_resource", <<>>, ctx,
                  server_status_resource(ctx))

StdioSampleDataResource ==
    /\ pc = "idle"
    /\ \E data_type \in StdioSampleInputs, rand \in RandStreams, ctx \in Contexts :
           Invoke("stdio", "resource", "sample_data_resource", <<data_type>>, ctx,
                  stdio_sample_data_resource(data_type, rand, ctx))

SystemInfoResource ==
    /\ pc = "idle"
    /\ \E env \in Environments, ctx \in Contexts :
           Invoke("stdio", "resource", "system_info_resource", <<env>>, ctx,
                  system_info_resource(env, ctx))

InspectRequest ==
    /\ pc = "idle"
    /\ \E request \in Requests, ctx \in Contexts :
           Invoke("http", "tool", "inspect_request", <<request>>, ctx,
                  inspect_request(request, ctx))

GetWeather ==
    /\ pc = "idle"
    /\ \E location \in LocationInputs, units \in UnitsInputs, rand \in RandStreams,
          ctx \in Contexts :
           Invoke("http", "tool", "get_weather", <<location, units>>, ctx,
                  get_weather(location, units, rand, ctx))

EchoAdvanced ==
    /\ pc = "idle"
    /\ \E message \in MessageInputs, format_type \in FormatInputs,
          repeat \in RepeatInputs, ctx \in Contexts :
           Invoke("http", "tool", "echo_advanced", <<message, format_type, repeat>>, ctx,
                  echo_advanced(message, format_type, repeat, ctx))

ServerInfoResource ==
    /\ pc = "idle"
    /\ \E ctx \in Contexts :
           Invoke("http", "resource", "server_info_resource", <<>>, ctx,
                  server_info_resource(ctx))

HttpSampleDataResource ==
    /\ pc = "idle"
    /\ \E data_type \in HttpSampleInputs, rand \in RandStreams, ctx \in Contexts :
           Invoke("http", "resource", "sample_data_resource", <<data_type>>, ctx,
                  http_sample_data_resource(data_type, rand, ctx))

WeatherForecastResource ==
    /\ pc = "idle"
    /\ \E city \in LocationInputs, rand \in RandStreams, ctx \in Contexts :
           Invoke("http", "resource", "weather_forecast_resource", <<city>>, ctx,
                  weather_forecast_resource(city, rand, ctx))

\* the response has been sent: nothing of the invocation remains
Return ==
    /\ pc = "done"
    /\ pc' = "idle"
    /\ call' = NoCall
    /\ response' = NoResponse
    /\ progress' = <<>>
    /\ evalLog' = <<>>
    /\ failed' = FALSE
    /\ raised' = FALSE
    /\ prev' = NoPrev
    /\ UNCHANGED <<registered, client>>

Next ==
    \/ GetServerInfo
    \/ Calculate
    \/ StringOperations
    \/ StringOperationsAgain
    \/ GenerateData
    \/ GetCurrentTime
    \/ MathOperations
    \/ TextAnalyzer
    \/ DataProcessor
    \/ GreetAdvanced
    \/ ServerStatusResource
    \/ StdioSampleDataResource
    \/ SystemInfoResource
    \/ InspectRequest
    \/ GetWeather
    \/ EchoAdvanced
    \/ ServerInfoResource
    \/ HttpSampleDataResource
    \/ WeatherForecastResource
    \/ Return

Spec == Init /\ [][Next]_vars

(***************************************************************************)
(* Properties of the response envelope and of calculate.                   *)
(***************************************************************************)
Done == pc = "done"

Called(name) == pc = "done" /\ call.name = name

HasKey(key) == key \in DOMAIN response

\* the allow-list as the documentation states it:
\* 0-9 + - * / ( ) . , e and the space
DocumentedAllowList ==
    {"0", "1", "2", "3", "4", "5", "6", "7", "8", "9"}
        \cup {"+", "-", "*", "/", "(", ")", ".", ",", "e", " "}

HasDisallowedChar(expression) ==
    \E i \in 1..Len(expression) : expression[i] \notin DocumentedAllowList

\* C1: every response of every tool and resource handler, on every path,
\* has both a success key and a request_id key, and every error response
\* has success = false.
C1_EnvelopeOnEveryPath ==
    Done => /\ HasKey("success")
            /\ HasKey("request_id")
            /\ (HasKey("error") => response.success = FALSE)

C3_DisallowedNeverEvaluated ==
    (Called("calculate") /\ HasDisallowedChar(call.args[1]))
        => /\ HasKey("success")
           /\ response.success = FALSE
           /\ evalLog = <<>>

\* "2+2;import os" has been rejected
C3_Witness ==
    /\ Called("calculate")
    /\ call.args[1] = <<"2", "+", "2", ";", "i", "m", "p", "o", "r", "t", " ", "o", "s">>
    /\ HasKey("success")
    /\ ~response.success
    /\ evalLog = <<>>

\* C4: an allow-listed expression that evaluates without error is answered
\* with success = true, a result that is a number (the arithmetic value of
\* the expression, 20 for "10 + 5 * 2") and the type name of that result.
C4_NumericResult ==
    (Called("calculate") /\ ~HasDisallowedChar(call.args[1]) /\ ~failed)
        => /\ HasKey("success") /\ response.success
           /\ HasKey("result") /\ response.result.k \in {"int", "float"}
           /\ HasKey("type") /\ response.type = response.result.k
           /\ (call.args[1] = <<"1", "0", " ", "+", " ", "5", " ", "*", " ", "2">>
                  => response.result = IntV(20))

\* allow-listed expressions whose evaluation fails: division by zero,
\* malformed syntax, the empty string, a bare e
C5_FailingExamples ==
    {<<"1", "/", "0">>, <<"1", "+">>, <<>>, <<"e">>}

\* C5: an allow-listed expression whose evaluation fails is answered with
\* an envelope holding success = false, an error message, the original
\* expression and the request id, and calculate does not raise.
C5_EvaluationErrorEnvelope ==
    (Called("calculate") /\ ~HasDisallowedChar(call.args[1]))
        => /\ (call.args[1] \in C5_FailingExamples => failed)
           /\ failed =>
                /\ ~raised
                /\ evalLog = <<call.args[1]>>
                /\ {"error", "success", "expression", "request_id"}
                       \subseteq DOMAIN response
                /\ response.success = FALSE
                /\ response.expression = call.args[1]
                /\ response.request_id = call.ctx.request_id

\* the division by zero 1/0 has been answered
C5_Witness ==
    /\ Called("calculate")
    /\ call.args[1] = <<"1", "/", "0">>
    /\ failed
    /\ HasKey("error")
    /\ ~response.success

(***************************************************************************)
(* Properties of generate_data.                                            *)
(***************************************************************************)
SupportedDataTypes ==
    {"numbers", "floats", "strings", "booleans", "dates", "colors"}

\* the number of items a response carries
ItemCount == IF HasKey("data") THEN Len(response.data) ELSE 0

\* C6: generate_data never returns more than 100 items; a request for more
\* than 100 items of a supported type returns exactly 100; every item of
\* type numbers is an integer in [1, 1000].
C6_AtMostHundredItems ==
    Called("generate_data")
        => /\ ItemCount <= 100
           /\ (call.args[1] \in SupportedDataTypes /\ call.args[2] > 100)
                  => ItemCount = 100
           /\ (call.args[1] = "numbers" /\ HasKey("data"))
                  => \A i \in 1..Len(response.data) :
                         /\ response.data[i].k = "int"
                         /\ response.data[i].n >= 1
                         /\ response.data[i].n <= 1000

\* 1000 numbers have been requested and 100 returned
C6_Witness ==
    /\ Called("generate_data")
    /\ call.args = <<"numbers", 1000>>
    /\ ItemCount = 100
    /\ \E i \in 1..100 : response.data[i].n = 1000

\* C7 as stated: generate_data returns exactly min(count, 100) items of a
\* supported type, and the count field equals that number and the length
\* of the data list.
C7_MinCountItems ==
    (Called("generate_data") /\ call.args[1] \in SupportedDataTypes)
        => /\ HasKey("data") /\ HasKey("count")
           /\ Len(response.data) = (IF call.args[2] < 100 THEN call.args[2] ELSE 100)
           /\ response.count = Len(response.data)

\* C7 (amended): generate_data returns exactly max(0, min(count, 100))
\* items of a supported type (none for a count below 1), and the count
\* field equals that number and the length of the data list.
C7_ClampedCountItems ==
    (Called("generate_data") /\ call.args[1] \in SupportedDataTypes)
        => /\ HasKey("data") /\ HasKey("count")
           /\ Len(response.data) = (IF call.args[2] < 0 THEN 0
                                    ELSE IF call.args[2] < 100 THEN call.args[2]
                                    ELSE 100)
           /\ response.count = Len(response.data)

\* a negative count has been answered with no items
C7_Witness ==
    /\ Called("generate_data")
    /\ call.args = <<"colors", -2>>
    /\ HasKey("data")
    /\ response.data = <<>>
    /\ response.count = 0

(***************************************************************************)
(* Properties of the handlers that take a name.                            *)
(***************************************************************************)
DispatchTools ==
    {"string_operations", "generate_data", "math_operations", "text_analyzer",
     "data_processor"}

\* the operation or type name of a call to a dispatch-table tool
NameArg == IF call.name = "generate_data" THEN call.args[1] ELSE call.args[2]

\* the keys of each tool's dispatch table as the documentation lists them
DocumentedKeys(tool) ==
    CASE tool = "string_operations" ->
           {"upper", "lower", "title", "reverse", "length", "strip", "capitalize"}
      [] tool = "generate_data" -> SupportedDataTypes
      [] tool = "math_operations" ->
           {"sum", "average", "min", "max", "median", "count"}
      [] tool = "text_analyzer" -> {"basic", "detailed"}
      [] tool = "data_processor" ->
           {"sort", "reverse", "unique", "frequency", "sample"}

\* the names a tool supports: string_operations also performs replace,
\* when it is given a target and a replacement
SupportedNames(tool) ==
    IF tool = "string_operations" THEN DocumentedKeys(tool) \cup {"replace"}
    ELSE DocumentedKeys(tool)

HasList == HasKey("available_operations") \/ HasKey("available_types")

AvailableList ==
    IF HasKey("available_operations") THEN response.available_operations
    ELSE response.available_types

\* the list enumerates exactly the names of the set: each once, no other
Enumerates(list, names) ==
    Range(list) = names /\ Len(list) = Cardinality(names)

UnsupportedNameCalled ==
    /\ Done
    /\ call.name \in DispatchTools
    /\ NameArg \notin SupportedNames(call.name)

\* C8 as stated: a dispatch-table tool answers a name it does not support
\* with success = false and a list of exactly the names it supports,
\* whatever the other arguments.
C8_ListsSupportedNames ==
    UnsupportedNameCalled
        => /\ HasKey("success") /\ response.success = FALSE
           /\ HasList
           /\ Enumerates(AvailableList, SupportedNames(call.name))

\* C8 (amended): a dispatch-table tool answers a name it does not support
\* with success = false; math_operations given an empty list answers with
\* no list, and every other such call lists exactly the keys of the tool's
\* dispatch table, whatever the other arguments: for string_operations the
\* seven fixed operations, never replace.
C8_ListsTableKeys ==
    UnsupportedNameCalled
        => /\ HasKey("success") /\ response.success = FALSE
           /\ IF call.name = "math_operations" /\ call.args[1] = <<>>
              THEN ~HasList
              ELSE HasList /\ Enumerates(AvailableList, DocumentedKeys(call.name))

\* an unknown operation, sent with a target and a replacement, has been
\* answered with the seven fixed operations
C8_Witness ==
    /\ Called("string_operations")
    /\ call.args[2] = "bogus"
    /\ Truthy(call.args[3]) /\ Truthy(call.args[4])
    /\ ~response.success
    /\ Len(response.available_operations) = 7

\* the name a call carries is one its handler does not recognise
UnrecognisedName ==
    CASE call.name \in DispatchTools -> NameArg \notin SupportedNames(call.name)
      [] call.name = "echo_advanced" -> call.args[2] \notin Range(FormatNames)
      [] call.name = "get_weather" -> call.args[2] \notin Range(TemperatureNames)
      [] call.name = "greet_advanced" ->
           \/ call.args[2] \notin Range(GreetingStyles)
           \/ call.args[3] \notin Range(GreetingLanguages)
      [] call.name = "sample_data_resource" ->
           call.args[1] \notin Range(IF call.server = "stdio" THEN StdioSampleNames
                                     ELSE HttpSampleNames)
      [] OTHER -> FALSE

\* C9: every handler that takes an operation, type, format, units, style
\* or language name answers an unrecognised name with an error envelope
\* (an error field and success = false): it neither raises nor answers
\* with a success envelope.
C9_UnrecognisedNameIsError ==
    (Done /\ UnrecognisedName)
        => /\ ~raised
           /\ HasKey("error")
           /\ HasKey("success") /\ response.success = FALSE

(***************************************************************************)
(* Properties of string_operations.                                        *)
(***************************************************************************)
\* C10: for upper, lower and strip, string_operations called on the result
\* of a first call with the same operation returns the result of the first
\* call.
C10_Idempotent ==
    (Called("string_operations") /\ prev.set
        /\ prev.operation \in {"upper", "lower", "strip"})
        => /\ call.args[2] = prev.operation
           /\ response.success
           /\ response.result = prev.result

\* upper has been applied to its own result SS, the upper case of the
\* one character sharp s
C10_Witness ==
    /\ Called("string_operations")
    /\ prev.set
    /\ prev.operation = "upper"
    /\ prev.result = StrV(<<"S", "S">>)
    /\ call.args[1] = <<"S", "S">>
    /\ response.result = prev.result

(***************************************************************************)
(* Properties of math_operations.                                          *)
(***************************************************************************)
\* C11: math_operations called with an empty list answers success = false
\* for every operation name, before any statistic is computed: nothing is
\* raised and the progress report that follows the statistics is not made.
C11_EmptyListRejected ==
    (Called("math_operations") /\ call.args[1] = <<>>)
        => /\ ~raised /\ ~failed
           /\ HasKey("error")
           /\ HasKey("success") /\ response.success = FALSE
           /\ ~HasKey("result")
           /\ progress = <<25>>

\* the average of the empty list has been asked for and refused
C11_Witness ==
    /\ Called("math_operations")
    /\ call.args = <<<<>>, "average">>
    /\ HasKey("success")
    /\ ~response.success

\* a <= b for two numbers
NumLeq(a, b) == a.n * b.d <= b.n * a.d

\* the sum of the list, in any order of addition
RECURSIVE Total(_, _)
Total(numbers, k) ==
    IF k = 0 THEN FloatV(0, 1) ELSE PyAdd(Total(numbers, k - 1), numbers[k])

\* m is the element at index floor(n/2) of the list sorted ascending: at
\* most floor(n/2) elements are below it and more than floor(n/2) are not
\* above it
IsUpperMedian(m, numbers) ==
    LET half == Len(numbers) \div 2
        below == Cardinality({i \in 1..Len(numbers) : ~NumLeq(m, numbers[i])})
        notAbove == Cardinality({i \in 1..Len(numbers) : NumLeq(numbers[i], m)})
    IN  /\ m \in Range(numbers)
        /\ below <= half
        /\ notAbove > half

\* the statistic of the list that the operation names
IsStatistic(operation, numbers, result) ==
    CASE operation = "sum" -> result = Total(numbers, Len(numbers))
      [] operation = "average" ->
           PyMul(result, IntV(Len(numbers))) = Total(numbers, Len(numbers))
      [] operation = "min" ->
           result \in Range(numbers)
               /\ \A i \in 1..Len(numbers) : NumLeq(result, numbers[i])
      [] operation = "max" ->
           result \in Range(numbers)
               /\ \A i \in 1..Len(numbers) : NumLeq(numbers[i], result)
      [] operation = "count" -> result = IntV(Len(numbers))
      [] operation = "median" -> IsUpperMedian(result, numbers)

\* C12: for a non-empty list, math_operations returns for sum, average,
\* min, max and count the statistic of the list and for median the element
\* at index floor(n/2) of the sorted list (3 for [1, 2, 3, 4]);
\* input_count is the length of the list.
C12_Statistics ==
    (Called("math_operations") /\ call.args[1] # <<>>
        /\ call.args[2] \in {"sum", "average", "min", "max", "median", "count"})
        => /\ HasKey("success") /\ response.success
           /\ IsStatistic(call.args[2], call.args[1], response.result)
           /\ response.input_count = Len(call.args[1])
           /\ (call.args = <<<<FloatV(1, 1), FloatV(2, 1), FloatV(3, 1), FloatV(4, 1)>>,
                             "median">>
                  => response.result = FloatV(3, 1))

\* the median of [1, 2, 3, 4] has been answered with 3
C12_Witness ==
    /\ Called("math_operations")
    /\ call.args = <<<<FloatV(1, 1), FloatV(2, 1), FloatV(3, 1), FloatV(4, 1)>>, "median">>
    /\ response.success
    /\ response.result = FloatV(3, 1)

(***************************************************************************)
(* Properties of the filters of inspect_request and system_info_resource.  *)
(***************************************************************************)
\* the name contains one of the words, in any letter case
NameHasWord(name, words) == \E w \in words : Contains(Lower(name), w)

StrippedHeaderWords ==
    {<<"a", "u", "t", "h", "o", "r", "i", "z", "a", "t", "i", "o", "n">>,
     <<"c", "o", "o", "k", "i", "e">>,
     <<"t", "o", "k", "e", "n">>}

StrippedHeader(name) == NameHasWord(name, StrippedHeaderWords)

\* the request without the headers to strip
WithoutStripped(request) ==
    [request EXCEPT !.headers =
        [k \in {n \in DOMAIN request.headers : ~StrippedHeader(n)} |-> request.headers[k]]]

\* the fields of an inspect_request response other than headers
OtherFields ==
    {response.method, response.url, response.path, response.client_host,
     response.content_type, response.user_agent, response.request_id}

\* C13: the headers that inspect_request returns hold no header whose name
\* contains authorization, cookie or token in any letter case and hold
\* every other request header unchanged; the stripped headers do not
\* reach the response: it is the response to the request without them,
\* and a stripped value that no kept header carries is in no other field.
C13_SensitiveHeadersStripped ==
    (Called("inspect_request") /\ call.args[1].available)
        => LET request == call.args[1]
           IN  /\ HasKey("headers")
               /\ \A k \in DOMAIN response.headers : ~StrippedHeader(k)
               /\ \A k \in DOMAIN request.headers :
                      ~StrippedHeader(k) =>
                          /\ k \in DOMAIN response.headers
                          /\ response.headers[k] = request.headers[k]
               /\ response = inspect_request(WithoutStripped(request), call.ctx).response
               /\ \A k \in DOMAIN request.headers :
                      (/\ StrippedHeader(k)
                       /\ \A j \in DOMAIN response.headers :
                              response.headers[j] # request.headers[k])
                          => request.headers[k] \notin OtherFields

\* a request with a Cookie, an X-Token and a user-agent header has been
\* answered with the user-agent header alone
C13_Witness ==
    /\ Called("inspect_request")
    /\ call.args[1].available
    /\ DOMAIN call.args[1].headers =
           {<<"C", "o", "o", "k", "i", "e">>, <<"X", "-", "T", "o", "k", "e", "n">>,
            <<"u", "s", "e", "r", "-", "a", "g", "e", "n", "t">>}
    /\ DOMAIN response.headers = {<<"u", "s", "e", "r", "-", "a", "g", "e", "n", "t">>}

ExcludedEnvWords ==
    {<<"p", "a", "s", "s", "w", "o", "r", "d">>, <<"t", "o", "k", "e", "n">>,
     <<"k", "e", "y">>, <<"s", "e", "c", "r", "e", "t">>}

\* C14: the environment_variables that the stdio system-info resource
\* returns hold no variable whose name contains password, token, key or
\* secret in any letter case, and hold every other variable with its value
\* unchanged.
C14_SensitiveEnvironmentExcluded ==
    Called("system_info_resource")
        => LET env == call.args[1]
               safe == response.environment_variables
           IN  /\ \A k \in DOMAIN safe : ~NameHasWord(k, ExcludedEnvWords)
               /\ \A k \in DOMAIN env :
                      ~NameHasWord(k, ExcludedEnvWords)
                          => k \in DOMAIN safe /\ safe[k] = env[k]

\* an environment with API_KEY, MySecret and PATH has been answered with
\* PATH alone
C14_Witness ==
    /\ Called("system_info_resource")
    /\ DOMAIN call.args[1] =
           {<<"A", "P", "I", "_", "K", "E", "Y">>,
            <<"M", "y", "S", "e", "c", "r", "e", "t">>, <<"P", "A", "T", "H">>}
    /\ DOMAIN response.environment_variables = {<<"P", "A", "T", "H">>}

(***************************************************************************)
(* The test client, src/main.py.                                           *)
(***************************************************************************)
\* the command lines the client is started with: the server type, the tool
\* of --quick ("" without the flag), whether --params is valid JSON, the
\* value of --path ("" without the flag), and whether the stdio server
\* file exists
ClientArgs ==
    [server_type : Servers,
     quick : {"", "get_server_info", "no_such_tool"},
     params_ok : BOOLEAN,
     path : {"", "custom_server.py"},
     server_file : BOOLEAN]

DefaultLocation(server_type) ==
    IF server_type = "stdio" THEN "projects/stdio-server/main.py"
    ELSE "http://localhost:8000/mcp"

\* the location run_comprehensive_test hands to Client
ComprehensiveLocation(server_type, server_path) ==
    IF server_path # "" THEN server_path ELSE DefaultLocation(server_type)

\* the location run_quick_test hands to Client
QuickLocation(server_type) == DefaultLocation(server_type)

\* a request of the client: the stage of the run it belongs to, the client
\* method, the tool it names, the argument names it sends, and whether the
\* caller reads the result with .get
Req(stage, kind, name, args, get) ==
    [stage |-> stage, kind |-> kind, name |-> name, args |-> args, get |-> get]

Connect == Req("connect", "connect", "", {}, FALSE)

Ping == Req("ping", "ping", "", {}, FALSE)

ListTools == Req("list tools", "list_tools", "", {}, FALSE)

test_server_info(server_type) ==
    <<Req("server-info", "call_tool", "get_server_info", {}, FALSE)>>

test_math_operations(server_type) ==
    IF server_type = "stdio"
    THEN <<Req("math", "call_tool", "math_operations", {"a", "b", "operation"}, FALSE)>>
    ELSE <<Req("math", "call_tool", "calculate", {"expression"}, FALSE)>>

test_text_operations(server_type) ==
    IF server_type = "stdio"
    THEN <<Req("text", "call_tool", "text_analyzer", {"text"}, FALSE)>>
    ELSE <<Req("text", "call_tool", "string_operations", {"text", "operation"}, FALSE)>>

test_advanced_features(server_type) ==
    IF server_type = "stdio"
    THEN <<Req("advanced", "call_tool", "file_operations", {"operation"}, TRUE),
           Req("advanced", "call_tool", "data_processor", {"data", "operation"}, FALSE)>>
    ELSE <<Req("advanced", "call_tool", "generate_data", {"data_type", "count"}, FALSE),
           Req("advanced", "call_tool", "get_weather", {"city", "days"}, FALSE)>>

test_resources(server_type) ==
    <<Req("resources", "list_resources", "", {}, FALSE),
      Req("resources", "read_resource", "", {}, FALSE)>>

\* the requests of a run, block by block: the first block is the part of
\* the `async with` body outside any check, the later ones are the checks
Blocks(args) ==
    IF args.quick # ""
    THEN <<  <<Connect, Ping, Req("quick", "call_tool", args.quick, {}, FALSE)>>  >>
    ELSE <<  <<Connect, Ping, ListTools>>,
             test_server_info(args.server_type),
             test_math_operations(args.server_type),
             test_text_operations(args.server_type),
             test_advanced_features(args.server_type),
             test_resources(args.server_type)  >>

\* the parameters the tools declare: required and optional
SharedToolParams ==
    "get_server_info" :> [required |-> {}, optional |-> {}]
    @@ "calculate" :> [required |-> {"expression"}, optional |-> {}]
    @@ "string_operations" :> [required |-> {"text", "operation"},
                               optional |-> {"target", "replacement"}]
    @@ "generate_data" :> [required |-> {"data_type", "count"}, optional |-> {}]

StdioToolParams ==
    "get_current_time" :> [required |-> {}, optional |-> {"timezone"}]
    @@ "math_operations" :> [required |-> {"numbers", "operation"}, optional |-> {}]
    @@ "text_analyzer" :> [required |-> {"text", "analysis_type"}, optional |-> {}]
    @@ "data_processor" :> [required |-> {"data", "operation"}, optional |-> {}]
    @@ "greet_advanced" :> [required |-> {"name", "style"}, optional |-> {"language"}]

HttpToolParams ==
    "inspect_request" :> [required |-> {}, optional |-> {}]
    @@ "get_weather" :> [required |-> {"location"}, optional |-> {"units"}]
    @@ "echo_advanced" :> [required |-> {"message"},
                           optional |-> {"format_type", "repeat"}]

ToolParams(server) ==
    SharedToolParams @@ (IF server = "stdio" THEN StdioToolParams ELSE HttpToolParams)

\* the server dispatches the call to a handler: the tool is registered,
\* every required parameter is sent and no undeclared one
Accepts(server, req) ==
    /\ req.name \in Registry[server].tool
    /\ ToolParams(server)[req.name].required \subseteq req.args
    /\ req.args \subseteq ToolParams(server)[req.name].required
                          \cup ToolParams(server)[req.name].optional

\* the resources a server lists: those whose uri has no parameter
ListedResources(server) ==
    IF server = "stdio" THEN {"server_status_resource", "system_info_resource"}
    ELSE {"server_info_resource"}

\* the client as main() starts with the command line args
StartClient(args) ==
    [pc |-> "main", args |-> args, target |-> "", conn |-> "none", opens |-> 0,
     outstanding |-> <<>>, log |-> <<>>, block |-> 1, step |-> 1,
     results |-> <<>>, failure |-> FALSE, interrupted |-> FALSE,
     tally |-> <<>>, hint |-> FALSE, success |-> FALSE, exit |-> -1]

\* main() ends the process with the exit code
Exited(c, code) == [c EXCEPT !.pc = "exited", !.exit = code]

\* the next request issued while one is still outstanding
MayIssueEarly(c) == c.pc \in {"ready", "await"}

\* each request is awaited: the next one is issued when none is outstanding
MayIssue(c) == c.pc = "ready" /\ c.outstanding = <<>>

\* the connection kept open on leaving the block
ReleaseLeak(conn) == conn

\* leaving the `async with` block releases the connection it opened
Release(conn) == IF conn = "open" THEN "closed" ELSE conn

\* the run returning success when some tallied result is true
AnyPassed(results) == \E i \in DOMAIN results : results[i]

\* the run returns success when every tallied result is true
AllPassed(results) ==
    Cardinality({i \in DOMAIN results : results[i]}) = Len(results)

\* the answers a request can get: the repository's own server at the default
\* location rejects a tool call it cannot dispatch; any request can fail in
\* the transport; a server at a custom location is any server
Answers(c, req) ==
    LET own == c.target = DefaultLocation(c.args.server_type)
    IN  IF req.kind = "call_tool" /\ own /\ ~Accepts(c.args.server_type, req)
        THEN {"raised"}
        ELSE IF req.kind = "list_resources"
                  /\ (~own \/ ListedResources(c.args.server_type) = {})
        THEN {"returned", "empty", "raised"}
        ELSE {"returned", "raised"}

\* control passes to the block after the current one, or out of the
\* `async with` body after the last
NextBlock(c) ==
    IF c.block < Len(Blocks(c.args))
    THEN [c EXCEPT !.block = @ + 1, !.step = 1, !.pc = "ready"]
    ELSE [c EXCEPT !.pc = "leave"]

\* a check returns its boolean, which the run appends to test_results
CheckReturns(c, passed) == NextBlock([c EXCEPT !.results = Append(@, passed)])

\* the outstanding request completes with an answer
Completed(c, req, answer) ==
    LET bad == answer = "raised" \/ req.get
        opened == req.kind = "connect" /\ answer = "returned"
        base == [c EXCEPT !.outstanding = <<>>,
                          !.failure = @ \/ bad,
                          !.conn = IF opened THEN "open" ELSE @,
                          !.opens = IF opened THEN @ + 1 ELSE @]
    IN  IF bad
        THEN IF c.block > 1
             THEN CheckReturns(base, FALSE)
             ELSE [base EXCEPT !.conn = Release(@), !.pc = "caught"]
        ELSE IF c.step = Len(Blocks(c.args)[c.block]) \/ answer = "empty"
        THEN IF c.block > 1 THEN CheckReturns(base, TRUE) ELSE NextBlock(base)
        ELSE [base EXCEPT !.step = @ + 1, !.pc = "ready"]

serverVars == <<pc, call, response, progress, evalLog, failed, raised, prev, registered>>

ClientMain ==
    /\ client.pc = "main"
    /\ \E args \in {client.args} :
           client' =
               IF args.server_type = "stdio" /\ args.path = "" /\ ~args.server_file
               THEN Exited([client EXCEPT !.failure = TRUE], 1)
               ELSE IF args.quick # ""
               THEN IF args.params_ok
                    THEN [client EXCEPT !.pc = "ready",
                                        !.target = QuickLocation(args.server_type)]
                    ELSE Exited([client EXCEPT !.failure = TRUE], 1)
               ELSE [client EXCEPT !.pc = "ready",
                                   !.target = ComprehensiveLocation(args.server_type,
                                                                    args.path)]
    /\ UNCHANGED serverVars

ClientIssue ==
    /\ client.pc # "off"
    /\ MayIssue(client)
    /\ \E req \in {Blocks(client.args)[client.block][client.step]} :
           client' = [client EXCEPT !.pc = "await",
                                    !.outstanding = Append(@, req),
                                    !.log = Append(@, req)]
    /\ UNCHANGED serverVars

ClientComplete ==
    /\ client.pc = "await"
    /\ \E req \in {client.outstanding[1]} :
           \E answer \in Answers(client, req) :
               client' = Completed(client, req, answer)
    /\ UNCHANGED serverVars

\* control leaves the `async with` body after its last statement
ClientLeave ==
    /\ client.pc = "leave"
    /\ client' = [client EXCEPT !.conn = Release(@),
                                !.pc = IF client.args.quick # "" THEN "return"
                                       ELSE "tally"]
    /\ UNCHANGED serverVars

\* the except clause around the `async with` block
ClientCaught ==
    /\ client.pc = "caught"
    /\ client' = [client EXCEPT !.hint = client.args.quick = ""
                                         /\ client.args.server_type = "http",
                                !.success = FALSE,
                                !.pc = "return"]
    /\ UNCHANGED serverVars

ClientTally ==
    /\ client.pc = "tally"
    /\ \E results \in {client.results} :
           LET passed == Cardinality({i \in DOMAIN results : results[i]})
               total == Len(results)
           IN  client' = [client EXCEPT !.tally = <<passed, total - passed>>,
                                        !.success = AllPassed(results),
                                        !.pc = "return"]
    /\ UNCHANGED serverVars

\* main() after the run returned: a quick run falls off the end of main
ClientExit ==
    /\ client.pc = "return"
    /\ client' = Exited(client, IF client.args.quick # "" THEN 0
                                ELSE IF client.success THEN 0 ELSE 1)
    /\ UNCHANGED serverVars

\* KeyboardInterrupt while the run is in progress
ClientInterrupt ==
    /\ client.pc \in {"ready", "await", "leave", "caught", "tally"}
    /\ client' = Exited([client EXCEPT !.outstanding = <<>>,
                                       !.conn = Release(@),
                                       !.failure = TRUE,
                                       !.interrupted = TRUE], 1)
    /\ UNCHANGED serverVars

ClientInit ==
    /\ ServerInit
    /\ client \in {StartClient(args) : args \in ClientArgs}

ClientNext ==
    \/ ClientMain
    \/ ClientIssue
    \/ ClientComplete
    \/ ClientLeave
    \/ ClientCaught
    \/ ClientTally
    \/ ClientExit
    \/ ClientInterrupt

ClientSpec == ClientInit /\ [][ClientNext]_vars

(***************************************************************************)
(* Properties of the test client.                                          *)
(***************************************************************************)
Comprehensive == client.args.quick = ""

ClientExited == client.pc = "exited"

\* C15: a run ends with exit code 0 only if everything it attempted
\* succeeded, and with exit code 1 whenever a check, a tool call or the
\* connection attempt failed or the run was interrupted, in comprehensive
\* and in quick mode alike.
C15_ExitCodeReflectsOutcome ==
    ClientExited => (client.exit = 0 <=> ~client.failure)

\* the results of the checks that passed
PassedChecks == {i \in DOMAIN client.results : client.results[i]}

CheckStages == {"server-info", "math", "text", "advanced", "resources"}

\* connecting, ping or listing tools failed
PreambleFailed ==
    /\ client.pc \in {"caught", "return", "exited"}
    /\ client.block = 1
    /\ client.log # <<>>
    /\ client.failure
    /\ ~client.interrupted

\* C16: in a comprehensive run whose connection, ping and tool listing
\* succeed, the five checks all run whether or not an earlier one failed,
\* exactly five results are tallied with passed + failed = 5, and the run
\* returns success exactly when all five are true; when connecting, ping
\* or listing tools fails no check result is reported and the run returns
\* failure, with the connectivity hint exactly when the server type is http.
C16_FiveChecksTallied ==
    Comprehensive =>
        /\ (client.pc \in {"leave", "tally"} \/ client.tally # <<>>)
               => /\ Len(client.results) = 5
                  /\ \A stage \in CheckStages :
                         \E i \in DOMAIN client.log : client.log[i].stage = stage
        /\ client.tally # <<>>
               => /\ client.tally[1] = Cardinality(PassedChecks)
                  /\ client.tally[1] + client.tally[2] = 5
                  /\ client.success <=> (\A i \in 1..5 : client.results[i])
                  /\ ClientExited /\ ~client.interrupted
                         => (client.exit = 0 <=> client.success)
        /\ PreambleFailed
               => /\ client.results = <<>>
                  /\ client.tally = <<>>
                  /\ client.pc # "caught"
                         => /\ ~client.success
                            /\ client.hint <=> client.args.server_type = "http"
                  /\ ClientExited => client.exit = 1

\* a comprehensive run has passed all five checks and ended with exit code 0
C16_Witness ==
    /\ Comprehensive
    /\ ClientExited
    /\ client.tally = <<5, 0>>
    /\ client.success
    /\ client.exit = 0

StageOrder ==
    <<"connect", "ping", "list tools", "server-info", "math", "text", "advanced",
      "resources">>

QuickOrder == <<"connect", "ping", "quick">>

StageIndex(order, stage) == CHOOSE i \in DOMAIN order : order[i] = stage

\* C17: the requests of a run are issued one at a time, in the order connect,
\* ping, list tools, server-info check, math check, text check, advanced
\* check, resource check (connect, ping, tool call in a quick run): none is
\* issued while another is outstanding, and none is issued out of order or
\* before the stage ahead of it.
C17_OneAtATimeInOrder ==
    client.pc \notin {"off", "main"} =>
        LET order == IF Comprehensive THEN StageOrder ELSE QuickOrder
            log == client.log
        IN  /\ Len(client.outstanding) <= 1
            /\ client.outstanding # <<>> => client.outstanding[1] = log[Len(log)]
            /\ \A i \in DOMAIN log :
                   /\ \E j \in DOMAIN order : order[j] = log[i].stage
                   /\ i = 1 => log[i].stage = "connect"
                   /\ i > 1 => StageIndex(order, log[i].stage)
                                   - StageIndex(order, log[i - 1].stage) \in {0, 1}

\* a comprehensive run has issued a request of every stage, the last one
\* being outstanding
C17_Witness ==
    /\ Comprehensive
    /\ client.pc = "await"
    /\ {client.log[i].stage : i \in DOMAIN client.log}
           = {StageOrder[j] : j \in DOMAIN StageOrder}
    /\ client.outstanding[1].kind = "read_resource"

OutOfBlock == client.pc \in {"caught", "tally", "return", "exited"}

\* C18: a run opens the connection at most once; a request other than the
\* connect itself is outstanding only while the connection is open; the
\* connection is not open once control is out of the `async with` block,
\* however the block was left; and after the release no request is
\* outstanding or about to be issued.
C18_ConnectionScoped ==
    client.pc \notin {"off", "main"} =>
        /\ client.opens <= 1
        /\ client.conn = "none" <=> client.opens = 0
        /\ \A i \in DOMAIN client.outstanding :
               IF client.outstanding[i].kind = "connect"
               THEN client.conn = "none"
               ELSE client.conn = "open"
        /\ OutOfBlock => client.conn # "open"
        /\ client.conn = "closed"
               => client.outstanding = <<>> /\ client.pc \notin {"ready", "await"}

\* a quick run whose tool call raised has ended with the connection released
C18_Witness ==
    /\ ~Comprehensive
    /\ ClientExited
    /\ ~client.interrupted
    /\ Len(client.log) = 3
    /\ client.failure
    /\ client.opens = 1
    /\ client.conn = "closed"

\* C20: when --path is given, every connection the run opens targets the
\* supplied path or URL, in comprehensive and in quick mode.
C20_PathTargeted ==
    (client.pc # "off" /\ client.args.path # "" /\ client.log # <<>>)
        => client.target = client.args.path

C21_ReplaceWhenSupplied ==
    (Called("string_operations") /\ call.args[2] = "replace")
        => IF call.args[3].some /\ call.args[4].some
           THEN /\ response.success
                /\ response.result
                       = StrV(Replace(call.args[1], call.args[3].s, call.args[4].s))
           ELSE /\ ~response.success
                /\ HasKey("error")

\* C22: every tool call the comprehensive battery issues names a tool the
\* server of the chosen type registers, sends every required parameter of
\* that tool and sends no parameter the tool does not declare.
C22_BatteryMatchesServers ==
    (client.pc \notin {"off", "main"} /\ Comprehensive)
        => \A i \in DOMAIN client.log :
               client.log[i].kind = "call_tool"
                   => Accepts(client.args.server_type, client.log[i])

\* the response reports a failure
ErrorEnvelope == HasKey("error") \/ (HasKey("success") /\ ~response.success)

ProgressTools ==
    {"calculate", "string_operations", "generate_data", "math_operations",
     "text_analyzer", "data_processor", "get_weather"}

====
